---- MODULE Spec2Model ----
(***************************************************************************)
(* Model of the DIRHAM bank-statement import engine.                       *)
(*                                                                         *)
(* Texts (statement lines, descriptions, amounts, ISO dates) are TLA+      *)
(* strings; the regular expressions of the source are translated to        *)
(* character-level operators over them.  Amounts are integers counted in   *)
(* hundredths (1 200,00 is 120000) so that decimals with two fractional    *)
(* digits are exact.  Vertical positions of text fragments are counted in  *)
(* tenths of a unit so that non-integer positions exist.                   *)
(***************************************************************************)
EXTENDS Integers, Sequences, FiniteSets, TLC

VARIABLES
  \* buildDateISO exercised on its own
  dDay, dMonth, dYear, dResult,
  \* one parse of one line sequence (both parser implementations)
  doc, tz, period, parsed, svcParsed, converted, consoleErrors,
  \* the deduplication merge exercised on its own
  mE, mN, mOnce, mTwice,
  \* line reconstruction of one page
  items, pageLines,
  \* the import pipeline of the upload view and the persisted store
  engine, store, statements, isProcessing, error, success, pc, file,
  cleanedExisting, addedCount, importsDone, history,
  \* the import left running by an upload view that was unmounted, and the
  \* records edited in the transactions view while an import was running
  background, edited, currentView,
  \* parsePDFInternal: the document being opened and its pages being fetched
  xPdf, xPc, xPageNum, xFetched, xLines, xElapsed, xResult

dateVars  == <<dDay, dMonth, dYear, dResult>>
parseVars == <<doc, tz, period, parsed, svcParsed, converted, consoleErrors>>
mergeVars == <<mE, mN, mOnce, mTwice>>
lineVars  == <<items, pageLines>>
pipeVars  == <<engine, store, statements, isProcessing, error, success, pc, file,
               cleanedExisting, addedCount, importsDone, history, background, edited, currentView>>
extractVars == <<xPdf, xPc, xPageNum, xFetched, xLines, xElapsed, xResult>>
vars == <<dateVars, parseVars, mergeVars, lineVars, pipeVars, extractVars>>

(***************************************************************************)
(* Strings                                                                 *)
(***************************************************************************)
Ch(s, i) == SubSeq(s, i, i)

DigitChars == {"0", "1", "2", "3", "4", "5", "6", "7", "8", "9"}
UpperChars == {"A", "B", "C", "D", "E", "F", "G", "H", "I", "J", "K", "L", "M",
               "N", "O", "P", "Q", "R", "S", "T", "U", "V", "W", "X", "Y", "Z"}
LowerChars == {"a", "b", "c", "d", "e", "f", "g", "h", "i", "j", "k", "l", "m",
               "n", "o", "p", "q", "r", "s", "t", "u", "v", "w", "x", "y", "z"}

IsDigit(c) == c \in DigitChars
IsSpace(c) == c = " "
\* \w of the regular expressions: letters, digits, underscore
IsWord(c) == c \in DigitChars \cup UpperChars \cup LowerChars \cup {"_"}

DigitVal(c) ==
  CASE c = "0" -> 0 [] c = "1" -> 1 [] c = "2" -> 2 [] c = "3" -> 3
    [] c = "4" -> 4 [] c = "5" -> 5 [] c = "6" -> 6 [] c = "7" -> 7
    [] c = "8" -> 8 [] c = "9" -> 9

DigitChar(n) ==
  CASE n = 0 -> "0" [] n = 1 -> "1" [] n = 2 -> "2" [] n = 3 -> "3"
    [] n = 4 -> "4" [] n = 5 -> "5" [] n = 6 -> "6" [] n = 7 -> "7"
    [] n = 8 -> "8" [] n = 9 -> "9"

ToLowerChar(c) ==
  CASE c = "A" -> "a" [] c = "B" -> "b" [] c = "C" -> "c" [] c = "D" -> "d"
    [] c = "E" -> "e" [] c = "F" -> "f" [] c = "G" -> "g" [] c = "H" -> "h"
    [] c = "I" -> "i" [] c = "J" -> "j" [] c = "K" -> "k" [] c = "L" -> "l"
    [] c = "M" -> "m" [] c = "N" -> "n" [] c = "O" -> "o" [] c = "P" -> "p"
    [] c = "Q" -> "q" [] c = "R" -> "r" [] c = "S" -> "s" [] c = "T" -> "t"
    [] c = "U" -> "u" [] c = "V" -> "v" [] c = "W" -> "w" [] c = "X" -> "x"
    [] c = "Y" -> "y" [] c = "Z" -> "z" [] OTHER -> c

RECURSIVE toLowerCase(_)
\* String.prototype.toLowerCase, character by character (the text is halved
\* so that long texts need no deep recursion)
toLowerCase(s) ==
  IF Len(s) = 0 THEN ""
  ELSE IF Len(s) = 1 THEN ToLowerChar(s)
  ELSE toLowerCase(SubSeq(s, 1, Len(s) \div 2)) \o toLowerCase(SubSeq(s, Len(s) \div 2 + 1, Len(s)))

\* the text of s from position i to its end
From(s, i) == IF i > Len(s) THEN "" ELSE SubSeq(s, i, Len(s))

\* whether pattern p occurs in s at position i
At(s, i, p) == i >= 1 /\ i + Len(p) - 1 <= Len(s) /\ SubSeq(s, i, i + Len(p) - 1) = p

\* String.prototype.includes
includes(s, p) == \E i \in 1..(Len(s) + 1) : At(s, i, p)

\* n digits at positions i .. i+n-1
DigitsAt(s, i, n) ==
  i >= 1 /\ i + n - 1 <= Len(s) /\ \A k \in i..(i + n - 1) : IsDigit(Ch(s, k))

RECURSIVE SkipSpaces(_, _)
\* the first position at or after i that holds no white space (\s*)
SkipSpaces(s, i) ==
  IF i <= Len(s) /\ IsSpace(Ch(s, i)) THEN SkipSpaces(s, i + 1) ELSE i

RECURSIVE SkipDigits(_, _)
\* the first position at or after i that holds no digit (\d*)
SkipDigits(s, i) ==
  IF i <= Len(s) /\ IsDigit(Ch(s, i)) THEN SkipDigits(s, i + 1) ELSE i

RECURSIVE TrimEnd(_)
TrimEnd(s) ==
  IF Len(s) > 0 /\ IsSpace(Ch(s, Len(s))) THEN TrimEnd(SubSeq(s, 1, Len(s) - 1)) ELSE s

\* String.prototype.trim
trim(s) == TrimEnd(From(s, SkipSpaces(s, 1)))

\* a word boundary (\b) just before position i
WordBoundary(s, i) ==
  LET before == i > 1 /\ i - 1 <= Len(s) /\ IsWord(Ch(s, i - 1))
      after  == i >= 1 /\ i <= Len(s) /\ IsWord(Ch(s, i))
  IN  before # after

\* the least element of a non-empty set of numbers
Least(S) == CHOOSE x \in S : \A y \in S : x <= y

\* const v = ...: the value v is computed once and named in Body
With(v, Body(_)) == Body(v)

RECURSIVE ParseDigits(_, _)
\* the value of the digit string s, most significant digit first
ParseDigits(s, acc) ==
  IF Len(s) = 0 THEN acc
  ELSE ParseDigits(From(s, 2), acc * 10 + DigitVal(Ch(s, 1)))

\* Number.parseInt on a string that starts with digits (the callers pass
\* \d{2} and \d{4} captures): the value of the leading digit run
parseInt(s) == ParseDigits(SubSeq(s, 1, SkipDigits(s, 1) - 1), 0)

RECURSIVE toString(_)
\* Number.prototype.toString of a non-negative integer
toString(n) ==
  IF n < 10 THEN DigitChar(n) ELSE toString(n \div 10) \o DigitChar(n % 10)

\* String.prototype.padStart(2, "0")
padStart2(s) == IF Len(s) < 2 THEN "0" \o s ELSE s

(***************************************************************************)
(* Calendar arithmetic of the Date object                                  *)
(***************************************************************************)
IsLeap(y) == (y % 4 = 0 /\ y % 100 # 0) \/ y % 400 = 0

DaysInYear(y) == IF IsLeap(y) THEN 366 ELSE 365

\* days of month index m (0 = January) in year y
MonthLength(y, m) ==
  CASE m = 1 -> IF IsLeap(y) THEN 29 ELSE 28
    [] m \in {3, 5, 8, 10} -> 30
    [] OTHER -> 31

\* DayFromYear of ECMAScript: day number of 1 January of year y, counted
\* from 1 January 1970
DayFromYear(y) ==
  365 * (y - 1970) + ((y - 1969) \div 4) - ((y - 1901) \div 100) + ((y - 1601) \div 400)

RECURSIVE DaysBeforeMonth(_, _)
DaysBeforeMonth(y, m) ==
  IF m = 0 THEN 0 ELSE DaysBeforeMonth(y, m - 1) + MonthLength(y, m - 1)

\* MakeDay(year, month, date) of ECMAScript: month is an index that may
\* overflow 0..11, date may be 0 or negative
MakeDay(y, m, d) ==
  LET ym == y + (m \div 12)
      mn == m % 12
  IN  DayFromYear(ym) + DaysBeforeMonth(ym, mn) + d - 1

RECURSIVE YearOfDay(_, _)
YearOfDay(n, y) ==
  IF n < DayFromYear(y) THEN YearOfDay(n, y - 1)
  ELSE IF n >= DayFromYear(y + 1) THEN YearOfDay(n, y + 1)
  ELSE y

RECURSIVE MonthOfDay(_, _, _)
MonthOfDay(rest, y, m) ==
  IF rest >= MonthLength(y, m) THEN MonthOfDay(rest - MonthLength(y, m), y, m + 1)
  ELSE [month |-> m, date |-> rest + 1]

\* the calendar fields of day number n: year, month index, day of the month
CivilFromDay(n) ==
  LET y  == YearOfDay(n, 1970 + (n \div 365))
      md == MonthOfDay(n - DayFromYear(y), y, 0)
  IN  [year |-> y, month |-> md.month, date |-> md.date]

\* new Date(year, monthIndex, date).getDate(): local fields in, local field out
DateGetDate(y, m, d) == CivilFromDay(MakeDay(y, m, d)).date

(***************************************************************************)
(* buildDateISO                                                            *)
(***************************************************************************)
MinDay == 1
MaxDay == 31
MinMonth == 1
MaxMonth == 12
MinYear == 2000
MaxYear == 2030

Thrown(msg) == [ok |-> FALSE, value |-> msg]
Returned(v) == [ok |-> TRUE, value |-> v]

\* `${yearNum}-${monthNum.toString().padStart(2, "0")}-${dayNum.toString().padStart(2, "0")}`
DateText(yearNum, monthNum, dayNum) ==
  toString(yearNum) \o "-" \o padStart2(toString(monthNum)) \o "-" \o padStart2(toString(dayNum))

\* the range checks of the three numbers; "" when all pass
RangeError(dayNum, monthNum, yearNum) ==
  IF dayNum < MinDay \/ dayNum > MaxDay THEN "Invalid day: " \o toString(dayNum)
  ELSE IF monthNum < MinMonth \/ monthNum > MaxMonth THEN "Invalid month: " \o toString(monthNum)
  ELSE IF yearNum < MinYear \/ yearNum > MaxYear THEN "Invalid year: " \o toString(yearNum)
  ELSE ""

\* the day adjusted to the last day of the month when it lies beyond it
ClampDay(dayNum, maxDayInMonth) == IF dayNum > maxDayInMonth THEN maxDayInMonth ELSE dayNum

buildDateISO_NoClamp(day, month, year) ==
  IF day = "" \/ month = "" \/ year = "" THEN Thrown("Invalid date components: day=" \o day \o ", month=" \o month \o ", year=" \o year)
  ELSE
    With(parseInt(day), LAMBDA dayNum :
    With(parseInt(month), LAMBDA monthNum :
    With(parseInt(year), LAMBDA yearNum :
    With(RangeError(dayNum, monthNum, yearNum), LAMBDA rangeError :
      IF rangeError # "" THEN Thrown(rangeError)
      ELSE Returned(DateText(yearNum, monthNum, dayNum))))))

buildDateISO(day, month, year) ==
  IF day = "" \/ month = "" \/ year = "" THEN Thrown("Invalid date components: day=" \o day \o ", month=" \o month \o ", year=" \o year)
  ELSE
    With(parseInt(day), LAMBDA dayNum :
    With(parseInt(month), LAMBDA monthNum :
    With(parseInt(year), LAMBDA yearNum :
    With(RangeError(dayNum, monthNum, yearNum), LAMBDA rangeError :
      IF rangeError # "" THEN Thrown(rangeError)
      ELSE Returned(DateText(yearNum, monthNum,
                             ClampDay(dayNum, DateGetDate(yearNum, monthNum, 0))))))))

(***************************************************************************)
(* Sequence patterns: the regular expressions of the source that are a     *)
(* plain sequence of literals, \s+, \s*, \d{n}, [A-Z0-9]{n} and an        *)
(* optional literal.  Every element matches in one way only (white space   *)
(* is always followed by an element that takes no white space), so no      *)
(* backtracking is involved; each element's text is recorded as a capture. *)
(***************************************************************************)
Lit(str) == [t |-> "lit", s |-> str, n |-> 0]
Opt(str) == [t |-> "opt", s |-> str, n |-> 0]
Sp1      == [t |-> "sp1", s |-> "", n |-> 0]
Sp0      == [t |-> "sp0", s |-> "", n |-> 0]
Dig(k)   == [t |-> "dig", s |-> "", n |-> k]
Cls(k)   == [t |-> "cls", s |-> "", n |-> k]

NoMatch == [ok |-> FALSE, end |-> 0, caps |-> <<>>]

\* the end (exclusive) of element e matched at position i of s, 0 if none
ElementEnd(s, i, e) ==
  CASE e.t = "lit" -> IF At(s, i, e.s) THEN i + Len(e.s) ELSE 0
    [] e.t = "opt" -> IF At(s, i, e.s) THEN i + Len(e.s) ELSE i
    [] e.t = "sp1" -> IF SkipSpaces(s, i) > i THEN SkipSpaces(s, i) ELSE 0
    [] e.t = "sp0" -> SkipSpaces(s, i)
    [] e.t = "dig" -> IF DigitsAt(s, i, e.n) THEN i + e.n ELSE 0
    [] e.t = "cls" ->
         IF i + e.n - 1 <= Len(s)
            /\ \A k \in i..(i + e.n - 1) : Ch(s, k) \in UpperChars \cup DigitChars
         THEN i + e.n ELSE 0

RECURSIVE MatchFrom(_, _, _, _, _)
MatchFrom(s, i, pat, k, caps) ==
  IF k > Len(pat) THEN [ok |-> TRUE, end |-> i, caps |-> caps]
  ELSE With(ElementEnd(s, i, pat[k]), LAMBDA e :
         IF e = 0 THEN NoMatch
         ELSE MatchFrom(s, e, pat, k + 1, Append(caps, SubSeq(s, i, e - 1))))

\* the match of pattern pat that starts at position i of s
MatchAt(s, i, pat) == MatchFrom(s, i, pat, 1, <<>>)

\* String.prototype.match with an unanchored pattern: the leftmost match
Search(s, pat) ==
  With({i \in 1..Len(s) : ElementEnd(s, i, pat[1]) # 0 /\ MatchAt(s, i, pat).ok}, LAMBDA starts :
    IF starts = {} THEN NoMatch ELSE MatchAt(s, Least(starts), pat))

(***************************************************************************)
(* extractStatementPeriod                                                  *)
(***************************************************************************)
\* /SOLDE\s+FINAL\s+AU\s+(\d{2})\s+(\d{2})\s+(\d{4})/
AwbClosingRe == <<Lit("SOLDE"), Sp1, Lit("FINAL"), Sp1, Lit("AU"), Sp1,
                  Dig(2), Sp1, Dig(2), Sp1, Dig(4)>>
\* /NOUVEAU\s+SOLDE\s+AU\s+(\d{2})\/(\d{2})\/(\d{4})/
CihClosingRe == <<Lit("NOUVEAU"), Sp1, Lit("SOLDE"), Sp1, Lit("AU"), Sp1,
                  Dig(2), Lit("/"), Dig(2), Lit("/"), Dig(4)>>
\* /SOLDE\s+DEPART\s+AU\s+(\d{2})\s+(\d{2})\s+(\d{4})/
AwbOpeningRe == <<Lit("SOLDE"), Sp1, Lit("DEPART"), Sp1, Lit("AU"), Sp1,
                  Dig(2), Sp1, Dig(2), Sp1, Dig(4)>>
\* /SOLDE\s+DEPART\s+AU\s*:?\s*(\d{2})\/(\d{2})\/(\d{4})/
CihOpeningRe == <<Lit("SOLDE"), Sp1, Lit("DEPART"), Sp1, Lit("AU"), Sp0, Opt(":"), Sp0,
                  Dig(2), Lit("/"), Dig(2), Lit("/"), Dig(4)>>

ClosingPriority == 1
OpeningPriority == 2

\* if (match) foundPeriods.push({...}): what the match m of one test pushes
Candidate(src, prio, m, dayCap, monthCap, yearCap, lineNo) ==
  IF m.ok
  THEN <<[source |-> src, priority |-> prio, day |-> m.caps[dayCap],
          month |-> m.caps[monthCap], year |-> m.caps[yearCap], lineNumber |-> lineNo]>>
  ELSE <<>>

\* the candidates one line pushes, in the order of the four tests
LineCandidates(line, lineNo) ==
  Candidate("AWB_CLOSING", ClosingPriority, Search(line, AwbClosingRe), 7, 9, 11, lineNo)
  \o Candidate("CIH_CLOSING", ClosingPriority, Search(line, CihClosingRe), 7, 9, 11, lineNo)
  \o Candidate("AWB_OPENING", OpeningPriority, Search(line, AwbOpeningRe), 7, 9, 11, lineNo)
  \o Candidate("CIH_OPENING", OpeningPriority, Search(line, CihOpeningRe), 9, 11, 13, lineNo)

RECURSIVE FoundPeriods(_, _)
\* foundPeriods after the scan of lines i .. end
FoundPeriods(textLines, i) ==
  IF i > Len(textLines) THEN <<>>
  ELSE (IF textLines[i] = "" THEN <<>> ELSE LineCandidates(textLines[i], i))
       \o FoundPeriods(textLines, i + 1)

RECURSIVE InsertByPriority(_, _)
\* x put into the sorted sequence after every element that does not compare
\* greater than it (a stable insertion)
InsertByPriority(sorted, x) ==
  IF sorted = <<>> THEN <<x>>
  ELSE IF Head(sorted).priority - x.priority > 0
       THEN <<x>> \o sorted
       ELSE <<Head(sorted)>> \o InsertByPriority(Tail(sorted), x)

RECURSIVE SortByPriority(_)
\* Array.prototype.sort((a, b) => a.priority - b.priority): stable
SortByPriority(seq) ==
  IF seq = <<>> THEN <<>>
  ELSE InsertByPriority(SortByPriority(SubSeq(seq, 1, Len(seq) - 1)), seq[Len(seq)])

ChooseFirstFound(found) == found[1]

\* chosen = foundPeriods.sort(...)[0]
ChoosePeriod(found) == SortByPriority(found)[1]

extractStatementPeriod(textLines) ==
  With(FoundPeriods(textLines, 1), LAMBDA found :
    IF found = <<>>
    THEN Thrown("No balance lines found - cannot determine statement period")
    ELSE With(ChoosePeriod(found), LAMBDA chosen :
           Returned([year |-> chosen.year, month |-> chosen.month, day |-> chosen.day,
                     source |-> chosen.source, lineNumber |-> chosen.lineNumber])))

(***************************************************************************)
(* detectBankType                                                          *)
(***************************************************************************)
RECURSIVE join(_, _)
\* Array.prototype.join(" ") of the elements i .. end
join(textLines, i) ==
  IF i > Len(textLines) THEN ""
  ELSE IF i = Len(textLines) THEN textLines[i]
  ELSE textLines[i] \o " " \o join(textLines, i + 1)

\* /\d{2}\/\d{2}\s+\d{2}\/\d{2}/
CihPairRe == <<Dig(2), Lit("/"), Dig(2), Sp1, Dig(2), Lit("/"), Dig(2)>>
\* /^0\d{3}[A-Z0-9]{2}\s+\d{2}\s+\d{2}/
AwbCodeRe == <<Lit("0"), Dig(3), Cls(2), Sp1, Dig(2), Sp1, Dig(2)>>

detectBankType(textLines) ==
  With(toLowerCase(join(textLines, 1)), LAMBDA text :
    IF includes(text, "cih bank") \/ includes(text, "cih.co.ma")
       \/ includes(text, "mediateur@cih.co.ma")
    THEN "cih"
    ELSE IF includes(text, "attijariwafa") \/ includes(text, "wafabank")
    THEN "attijariwafa"
    ELSE IF \E i \in 1..Len(textLines) :
              textLines[i] # "" /\ Search(trim(textLines[i]), CihPairRe).ok
    THEN "cih"
    ELSE IF \E i \in 1..Len(textLines) :
              textLines[i] # "" /\ MatchAt(trim(textLines[i]), 1, AwbCodeRe).ok
    THEN "attijariwafa"
    ELSE "attijariwafa")

(***************************************************************************)
(* normalizeAmount, normalizeAmountWithSign, detectCreditTransaction       *)
(***************************************************************************)
\* /\b20\d{2}\b/ at position i: a free-standing year-like number
YearLikeAt(s, i) ==
  IF WordBoundary(s, i) /\ At(s, i, "20") /\ DigitsAt(s, i + 2, 2) /\ WordBoundary(s, i + 4)
  THEN 4 ELSE 0

\* /\s+/ at position i
SpacesAt(s, i) == SkipSpaces(s, i) - i

\* /\d{2}\/\d{2}\/\d{4}/
SlashDate4At(s, i) ==
  IF DigitsAt(s, i, 2) /\ At(s, i + 2, "/") /\ DigitsAt(s, i + 3, 2)
     /\ At(s, i + 5, "/") /\ DigitsAt(s, i + 6, 4)
  THEN 10 ELSE 0

\* /\d{2}\/\d{2}\/\d{2}/
SlashDate2At(s, i) ==
  IF DigitsAt(s, i, 2) /\ At(s, i + 2, "/") /\ DigitsAt(s, i + 3, 2)
     /\ At(s, i + 5, "/") /\ DigitsAt(s, i + 6, 2)
  THEN 8 ELSE 0

\* /\d{2}\s+\d{2}\s+\d{4}/
SpaceDateAt(s, i) ==
  With(MatchAt(s, i, <<Dig(2), Sp1, Dig(2), Sp1, Dig(4)>>), LAMBDA m :
    IF m.ok THEN m.end - i ELSE 0)

\* the length of the match of the named pattern that starts at position i
\* of s, 0 when it does not match there
MatchLength(re, s, i) ==
  CASE re = "year"      -> YearLikeAt(s, i)
    [] re = "spaces"    -> SpacesAt(s, i)
    [] re = "slashDate4" -> SlashDate4At(s, i)
    [] re = "slashDate2" -> SlashDate2At(s, i)
    [] re = "spaceDate" -> SpaceDateAt(s, i)

RECURSIVE ReplaceAll(_, _, _)
\* s.replace(/re/g, "") from position i on: the text up to the next match
\* is kept, the match is dropped, the scan goes on after it
ReplaceAll(re, s, i) ==
  With({k \in i..Len(s) : MatchLength(re, s, k) > 0}, LAMBDA starts :
    IF starts = {} THEN From(s, i)
    ELSE With(Least(starts), LAMBDA first :
           SubSeq(s, i, first - 1) \o ReplaceAll(re, s, first + MatchLength(re, s, first))))

RECURSIVE ReplaceFirst(_, _, _)
\* s.replace(from, to) with a literal one-character pattern: the first one only
ReplaceFirst(s, from, to) ==
  IF s = "" THEN ""
  ELSE IF Ch(s, 1) = from THEN to \o From(s, 2)
  ELSE Ch(s, 1) \o ReplaceFirst(From(s, 2), from, to)

\* Number.parseFloat of a text without sign or exponent, in hundredths:
\* the longest prefix of the form digits [ . digits ]; no digit at all is
\* NaN, which normalizeAmount turns into 0.  Fractions are read to two
\* digits (the amount texts of the model carry at most two).
parseFloatCents(s) ==
  With(SkipDigits(s, 1), LAMBDA intEnd :
  With(SubSeq(s, 1, intEnd - 1), LAMBDA int :
  With(IF At(s, intEnd, ".") THEN SubSeq(s, intEnd + 1, SkipDigits(s, intEnd + 1) - 1) ELSE "",
       LAMBDA frac :
  With(IF Len(frac) = 0 THEN "00"
       ELSE IF Len(frac) = 1 THEN frac \o "0"
       ELSE SubSeq(frac, 1, 2), LAMBDA frac2 :
    IF int = "" /\ frac = "" THEN 0
    ELSE ParseDigits(int, 0) * 100 + ParseDigits(frac2, 0)))))

\* the amount text as a number of hundredths
normalizeAmount(amountStr) ==
  IF amountStr = "" THEN 0
  ELSE LET noYears  == ReplaceAll("year", amountStr, 1)
           noSpaces == ReplaceAll("spaces", noYears, 1)
           cleaned  == ReplaceFirst(noSpaces, ",", ".")
       IN  parseFloatCents(cleaned)

abs(n) == IF n < 0 THEN -n ELSE n

normalizeAmountWithSign_Unsigned(amountStr, isCredit) == abs(normalizeAmount(amountStr))

normalizeAmountWithSign(amountStr, isCredit) ==
  With(normalizeAmount(amountStr), LAMBDA amount :
    IF isCredit THEN abs(amount) ELSE -abs(amount))

creditKeywords ==
  <<"versement", "virement recu", "recu", "credit", "depot", "salaire", "pension",
    "allocation", "dividend", "interet", "remboursement", "refund", "cashback", "bonus">>

detectCreditTransaction(description) ==
  IF description = "" THEN FALSE
  ELSE LET desc == toLowerCase(description)
       IN  \E k \in 1..Len(creditKeywords) : includes(desc, creditKeywords[k])

(***************************************************************************)
(* The amount at the end of a transaction line                             *)
(***************************************************************************)
RECURSIVE AmountTail(_, _)
\* (?:\s+\d{3})*,\d{2}$ from position j on
AmountTail(s, j) ==
  IF At(s, j, ",") THEN DigitsAt(s, j + 1, 2) /\ j + 2 = Len(s)
  ELSE IF j <= Len(s) /\ IsSpace(Ch(s, j))
       THEN DigitsAt(s, SkipSpaces(s, j), 3) /\ AmountTail(s, SkipSpaces(s, j) + 3)
       ELSE FALSE

\* \d+(?:\s+\d{3})*,\d{2}$ matched from position i
AmountAt(s, i) == i <= Len(s) /\ IsDigit(Ch(s, i)) /\ AmountTail(s, SkipDigits(s, i))

\* remainder.match(/(\d+(?:\s+\d{3})*,\d{2})$/): the start of the leftmost
\* match, 0 when there is none
AmountStart(s) ==
  With({i \in 1..Len(s) : AmountAt(s, i)}, LAMBDA starts :
    IF starts = {} THEN 0 ELSE Least(starts))

\* remainder.replace(/\s*\d+(?:\s+\d{3})*,\d{2}$/, ""): the leftmost start
\* of optional white space followed by the amount is cut off
StripAmount(s) ==
  With({i \in 1..Len(s) : AmountAt(s, SkipSpaces(s, i))}, LAMBDA starts :
    IF starts = {} THEN s ELSE SubSeq(s, 1, Least(starts) - 1))

(***************************************************************************)
(* Description cleaning of parseAWBTransactions                            *)
(***************************************************************************)
RECURSIVE CollapseSpaces(_, _)
\* s.replace(/\s+/g, " ") from position i on
CollapseSpaces(s, i) ==
  IF i > Len(s) THEN ""
  ELSE IF IsSpace(Ch(s, i)) THEN " " \o CollapseSpaces(s, SkipSpaces(s, i))
  ELSE Ch(s, i) \o CollapseSpaces(s, i + 1)

CleanDescription(description) ==
  LET d1 == trim(ReplaceAll("slashDate4", description, 1))
      d2 == trim(ReplaceAll("slashDate2", d1, 1))
      d3 == trim(ReplaceAll("spaceDate", d2, 1))
      d4 == trim(ReplaceAll("year", d3, 1))
  IN  trim(CollapseSpaces(d4, 1))

(***************************************************************************)
(* parseAWBTransactions                                                    *)
(***************************************************************************)
\* the ceiling of an accepted amount, in units
MaxAmount == 10000000

AmountValid_NoLimit(numericAmount) == numericAmount # 0

\* the amount check of both extractors, on a number of hundredths:
\* if (numericAmount === 0 || numericAmount > 10000000) continue
AmountValid(numericAmount) == ~(numericAmount = 0 \/ numericAmount > MaxAmount * 100)

\* /^(0\d{3}[A-Z0-9]{2})\s+(\d{2})\s+(\d{2})\s+(.+)$/
AwbLineRe == <<Lit("0"), Dig(3), Cls(2), Sp1, Dig(2), Sp1, Dig(2), Sp1>>

TransactionRecord(code, description, amount, isCredit, operISO, valueISO, line) ==
  [code |-> code, description |-> description, amount |-> amount,
   amountNumeric |-> normalizeAmountWithSign(amount, isCredit),
   debitCreditType |-> IF isCredit THEN "credit" ELSE "debit",
   operationDateISO |-> operISO, valueDateISO |-> valueISO,
   isExpense |-> ~isCredit, isIncome |-> isCredit, rawLine |-> line]

\* the records (none or one) that one line adds to the transactions
AwbLine(line, statementPeriod) ==
  With(trim(line), LAMBDA trimmedLine :
  With(MatchAt(trimmedLine, 1, AwbLineRe), LAMBDA m :
    IF trimmedLine = "" THEN <<>>
    ELSE IF includes(trimmedLine, "SOLDE") \/ includes(trimmedLine, "TOTAL") THEN <<>>
    ELSE IF ~m.ok \/ m.end > Len(trimmedLine) THEN <<>>
    ELSE
      With(From(trimmedLine, m.end), LAMBDA remainder :
      With(AmountStart(remainder), LAMBDA start :
        IF start = 0 THEN <<>>
        ELSE
          With(From(remainder, start), LAMBDA amount :
          With(normalizeAmount(amount), LAMBDA numericAmount :
          With(CleanDescription(trim(StripAmount(remainder))), LAMBDA description :
          With(buildDateISO(m.caps[5], statementPeriod.month, statementPeriod.year),
               LAMBDA finalDateISO :
            IF ~AmountValid(numericAmount) THEN <<>>
            ELSE IF ~finalDateISO.ok THEN <<>>
            ELSE <<TransactionRecord(m.caps[1] \o m.caps[2] \o m.caps[3], description, amount,
                                     detectCreditTransaction(description),
                                     finalDateISO.value, finalDateISO.value, line)>>))))))))

RECURSIVE parseAWBTransactionsFrom(_, _, _)
parseAWBTransactionsFrom(textLines, statementPeriod, i) ==
  IF i > Len(textLines) THEN <<>>
  ELSE AwbLine(textLines[i], statementPeriod)
       \o parseAWBTransactionsFrom(textLines, statementPeriod, i + 1)

parseAWBTransactions_Reversed(textLines, statementPeriod) ==
  With(parseAWBTransactionsFrom(textLines, statementPeriod, 1), LAMBDA found :
    [k \in 1..Len(found) |-> found[Len(found) + 1 - k]])

parseAWBTransactions(textLines, statementPeriod) ==
  parseAWBTransactionsFrom(textLines, statementPeriod, 1)

(***************************************************************************)
(* parseCIHTransactions                                                    *)
(***************************************************************************)
\* ^(\d{2})\/\d{2}\s+(\d{2})\/\d{2} : the part both patterns start with
CihDatesRe == <<Dig(2), Lit("/"), Dig(2), Sp1, Dig(2), Lit("/"), Dig(2)>>

\* [\d\s,]+$ matched from position k
AllAmountCharsFrom(s, k) ==
  k >= 1 /\ k <= Len(s)
  /\ \A i \in k..Len(s) : IsDigit(Ch(s, i)) \/ IsSpace(Ch(s, i)) \/ Ch(s, i) = ","

NoLineMatch == [ok |-> FALSE, description |-> "", amount |-> ""]

\* /^(\d{2})\/\d{2}\s+(\d{2})\/\d{2}\s+(.+?)\s+([\d\s,]+)$/ after the two
\* dates, which end before position q: the lazy description takes the
\* shortest text that white space and an all-amount tail follow; when that
\* fails the white space before it gives characters back, which lets a
\* description of one space match when three spaces or more stand there
CihPatternA(s, q) ==
  With(SkipSpaces(s, q), LAMBDA p :
  With({e \in p..(Len(s) - 2) :
          IsSpace(Ch(s, e + 1)) /\ AllAmountCharsFrom(s, SkipSpaces(s, e + 1))}, LAMBDA ends :
    IF p = q THEN NoLineMatch
    ELSE IF ends # {}
    THEN With(Least(ends), LAMBDA e :
           [ok |-> TRUE, description |-> SubSeq(s, p, e),
            amount |-> From(s, SkipSpaces(s, e + 1))])
    ELSE IF p - q >= 3 /\ AllAmountCharsFrom(s, p)
    THEN [ok |-> TRUE, description |-> " ", amount |-> From(s, p)]
    ELSE NoLineMatch))

\* /^(\d{2})\/\d{2}\s+(\d{2})\/\d{2}\s+(.+)/ and then /([\d\s,]+)$/ on the
\* remainder: the longest all-amount suffix is the amount
CihPatternB(s, q) ==
  With(SkipSpaces(s, q), LAMBDA p :
  With(From(s, p), LAMBDA remainder :
  With({i \in 1..Len(remainder) : AllAmountCharsFrom(remainder, i)}, LAMBDA starts :
    IF p = q \/ p > Len(s) \/ starts = {} THEN NoLineMatch
    ELSE With(Least(starts), LAMBDA a :
           [ok |-> TRUE, description |-> trim(SubSeq(remainder, 1, a - 1)),
            amount |-> trim(From(remainder, a))]))))

\* the pattern with the lazy description, else the fallback
CihMatch(s, q) ==
  With(CihPatternA(s, q), LAMBDA a : IF a.ok THEN a ELSE CihPatternB(s, q))

CihLine(line, statementPeriod) ==
  With(trim(line), LAMBDA trimmedLine :
  With(MatchAt(trimmedLine, 1, CihDatesRe), LAMBDA d :
    IF trimmedLine = "" THEN <<>>
    ELSE IF includes(trimmedLine, "SOLDE") \/ includes(trimmedLine, "TOTAL") THEN <<>>
    ELSE IF ~d.ok THEN <<>>
    ELSE
      With(CihMatch(trimmedLine, d.end), LAMBDA m :
        IF ~m.ok THEN <<>>
        ELSE
          With(normalizeAmount(m.amount), LAMBDA numericAmount :
          With(buildDateISO(d.caps[1], statementPeriod.month, statementPeriod.year),
               LAMBDA finalDateISO :
          With(buildDateISO(d.caps[5], statementPeriod.month, statementPeriod.year),
               LAMBDA valueDateISO :
            IF ~AmountValid(numericAmount) THEN <<>>
            ELSE IF ~finalDateISO.ok \/ ~valueDateISO.ok THEN <<>>
            ELSE <<[TransactionRecord("", trim(m.description), m.amount,
                                      detectCreditTransaction(m.description),
                                      finalDateISO.value, valueDateISO.value, line)
                    EXCEPT !.amount = trim(m.amount)]>>))))))

RECURSIVE parseCIHTransactionsFrom(_, _, _)
parseCIHTransactionsFrom(textLines, statementPeriod, i) ==
  IF i > Len(textLines) THEN <<>>
  ELSE CihLine(textLines[i], statementPeriod)
       \o parseCIHTransactionsFrom(textLines, statementPeriod, i + 1)

parseCIHTransactions(textLines, statementPeriod) ==
  parseCIHTransactionsFrom(textLines, statementPeriod, 1)

(***************************************************************************)
(* What is written with console.error about a line whose date could not    *)
(* be built: buildDateISO logs its error before it throws it, and the      *)
(* catch of the extractor logs the message it caught                       *)
(***************************************************************************)
\* if (debugCount <= 10): the pattern-matching lines whose details are logged
DebugLimit == 10

\* the pattern of parseAWBTransactions matched the line (debugCount++)
AwbMatched(line) ==
  With(trim(line), LAMBDA trimmedLine :
  With(MatchAt(trimmedLine, 1, AwbLineRe), LAMBDA m :
    /\ trimmedLine # ""
    /\ ~(includes(trimmedLine, "SOLDE") \/ includes(trimmedLine, "TOTAL"))
    /\ m.ok /\ m.end <= Len(trimmedLine)))

\* dateError.message when the line reached buildDateISO and it threw, else ""
AwbDateError(line, statementPeriod) ==
  IF ~AwbMatched(line) THEN ""
  ELSE
    With(MatchAt(trim(line), 1, AwbLineRe), LAMBDA m :
    With(From(trim(line), m.end), LAMBDA remainder :
    With(AmountStart(remainder), LAMBDA start :
      IF start = 0 THEN ""
      ELSE
        With(normalizeAmount(From(remainder, start)), LAMBDA numericAmount :
        With(buildDateISO(m.caps[5], statementPeriod.month, statementPeriod.year),
             LAMBDA finalDateISO :
          IF ~AmountValid(numericAmount) THEN ""
          ELSE IF finalDateISO.ok THEN "" ELSE finalDateISO.value)))))

RECURSIVE AwbConsoleErrors(_, _, _, _)
\* buildDateISO: console.error(error); throw new Error(error), and then
\* catch (dateError) { if (debugCount <= 10) console.error(...) }
AwbConsoleErrors(textLines, statementPeriod, i, debugCount) ==
  IF i > Len(textLines) THEN <<>>
  ELSE
    With(IF AwbMatched(textLines[i]) THEN debugCount + 1 ELSE debugCount, LAMBDA count :
    With(AwbDateError(textLines[i], statementPeriod), LAMBDA message :
      (IF message = "" THEN <<>>
       ELSE IF count <= DebugLimit THEN <<message, "Date building failed: " \o message>>
       ELSE <<message>>)
      \o AwbConsoleErrors(textLines, statementPeriod, i + 1, count)))

\* error.message when a date of the line could not be built, else ""
CihDateError(line, statementPeriod) ==
  With(trim(line), LAMBDA trimmedLine :
  With(MatchAt(trimmedLine, 1, CihDatesRe), LAMBDA d :
    IF trimmedLine = "" THEN ""
    ELSE IF includes(trimmedLine, "SOLDE") \/ includes(trimmedLine, "TOTAL") THEN ""
    ELSE IF ~d.ok THEN ""
    ELSE
      With(CihMatch(trimmedLine, d.end), LAMBDA m :
        IF ~m.ok THEN ""
        ELSE
          With(normalizeAmount(m.amount), LAMBDA numericAmount :
          With(buildDateISO(d.caps[1], statementPeriod.month, statementPeriod.year),
               LAMBDA finalDateISO :
          With(buildDateISO(d.caps[5], statementPeriod.month, statementPeriod.year),
               LAMBDA valueDateISO :
            IF ~AmountValid(numericAmount) THEN ""
            ELSE IF ~finalDateISO.ok THEN finalDateISO.value
            ELSE IF ~valueDateISO.ok THEN valueDateISO.value
            ELSE ""))))))

RECURSIVE CihConsoleErrors(_, _, _)
\* buildDateISO: console.error(error); throw new Error(error), and then
\* catch (error) { console.error(`Error parsing CIH line ${i + 1}: ...`) }
CihConsoleErrors(textLines, statementPeriod, i) ==
  IF i > Len(textLines) THEN <<>>
  ELSE
    With(CihDateError(textLines[i], statementPeriod), LAMBDA message :
      (IF message # ""
       THEN <<message, "Error parsing CIH line " \o toString(i) \o ": " \o message>>
       ELSE <<>>)
      \o CihConsoleErrors(textLines, statementPeriod, i + 1))

ParseConsoleErrors_Silent(textLines) == <<>>

\* the date failures logged during parseBankStatementPDF
ParseConsoleErrors(textLines) ==
  With(extractStatementPeriod(textLines), LAMBDA statementPeriod :
    IF textLines = <<>> \/ ~statementPeriod.ok THEN <<>>
    ELSE IF detectBankType(textLines) = "cih"
    THEN CihConsoleErrors(textLines, statementPeriod.value, 1)
    ELSE AwbConsoleErrors(textLines, statementPeriod.value, 1, 0))

(***************************************************************************)
(* parseBankStatementPDF                                                   *)
(***************************************************************************)
\* the calendar fields of new Date("YYYY-MM-DD") in a host whose clock is
\* offset hours ahead of UTC: the text denotes midnight UTC, which is still
\* the day before wherever the offset is negative
LocalFieldsOfISO(iso, offset) ==
  With(MakeDay(parseInt(SubSeq(iso, 1, 4)), parseInt(SubSeq(iso, 6, 7)) - 1,
               parseInt(SubSeq(iso, 9, 10))), LAMBDA utcDay :
    CivilFromDay(IF offset < 0 THEN utcDay - 1 ELSE utcDay))

\* `${date.getFullYear()}-${(date.getMonth() + 1).toString().padStart(2, "0")}`
MonthKey(iso, offset) ==
  With(LocalFieldsOfISO(iso, offset), LAMBDA f :
    toString(f.year) \o "-" \o padStart2(toString(f.month + 1)))

ValidateMonths_Unchecked(transactions, statementPeriod, offset) == Returned(transactions)

\* step 4: one month key for all records, equal to the period's
ValidateMonths(transactions, statementPeriod, offset) ==
  With({MonthKey(transactions[i].operationDateISO, offset) : i \in 1..Len(transactions)},
       LAMBDA uniqueMonths :
  With(statementPeriod.year \o "-" \o statementPeriod.month, LAMBDA expectedKey :
    IF Cardinality(uniqueMonths) = 1
    THEN IF uniqueMonths = {expectedKey} THEN Returned(transactions)
         ELSE Thrown("Date mismatch: got " \o (CHOOSE k \in uniqueMonths : TRUE)
                     \o ", expected " \o expectedKey)
    ELSE Thrown("Consistency violation: transactions in "
                \o toString(Cardinality(uniqueMonths)) \o " different months")))

\* steps 3 to 5: the records of the detected bank's parser, validated
ParseWithPeriod(textLines, bank, statementPeriod, offset) ==
  With(IF bank = "cih" THEN parseCIHTransactions(textLines, statementPeriod)
       ELSE parseAWBTransactions(textLines, statementPeriod), LAMBDA transactions :
  With(IF Len(transactions) > 0 THEN ValidateMonths(transactions, statementPeriod, offset)
       ELSE Returned(transactions), LAMBDA checked :
    IF ~checked.ok THEN checked
    ELSE IF Len(transactions) = 0 THEN Thrown("NO TRANSACTIONS WERE PARSED!")
    ELSE Returned([bank |-> IF bank = "cih" THEN "cih" ELSE "Attijariwafa",
                   transactions |-> transactions,
                   statementYear |-> statementPeriod.year,
                   statementMonth |-> statementPeriod.month,
                   statementSource |-> statementPeriod.source])))

parseBankStatementPDF(textLines, offset) ==
  IF textLines = <<>> THEN Thrown("Invalid or empty textLines input")
  ELSE
    With(extractStatementPeriod(textLines), LAMBDA statementPeriod :
      IF ~statementPeriod.ok THEN statementPeriod
      ELSE ParseWithPeriod(textLines, detectBankType(textLines), statementPeriod.value, offset))

(***************************************************************************)
(* parsePDF: the records handed to the upload view                         *)
(***************************************************************************)
ParsedTransaction(t) ==
  [code |-> t.code,
   date |-> IF t.operationDateISO # "" THEN t.operationDateISO
            ELSE IF t.valueDateISO # "" THEN t.valueDateISO ELSE "UNKNOWN",
   description |-> t.description,
   amount |-> t.amountNumeric,
   type |-> IF t.isIncome THEN "income" ELSE "expense"]

\* parsePDFInternal: result.transactions.map(...)
ParsedTransactions(transactions) ==
  [i \in 1..Len(transactions) |-> ParsedTransaction(transactions[i])]

\* what parsePDF makes of the outcome of parseBankStatementPDF
ParsePDFOutcome(result) ==
  IF ~result.ok THEN Thrown("PDF processing error: " \o result.value)
  ELSE Returned(ParsedTransactions(result.value.transactions))

parsePDF(textLines, offset) == ParsePDFOutcome(parseBankStatementPDF(textLines, offset))

(***************************************************************************)
(* The upload view: conversion to stored transactions                      *)
(***************************************************************************)
\* Date.prototype.toISOString().split("T")[0] of the date with day number n
ISODateOfDay(n) ==
  With(CivilFromDay(n), LAMBDA f :
    toString(f.year) \o "-" \o padStart2(toString(f.month + 1))
    \o "-" \o padStart2(toString(f.date)))

\* /^(\d{4})-(\d{1,2})-(\d{1,2})$/ : the three captures, or <<>>
MatchYearDashes(dateStr) ==
  With(SkipDigits(dateStr, 1), LAMBDA a :
  With(SkipDigits(dateStr, a + 1), LAMBDA b :
  With(SkipDigits(dateStr, b + 1), LAMBDA c :
    IF a = 5 /\ At(dateStr, a, "-") /\ b - (a + 1) \in {1, 2} /\ At(dateStr, b, "-")
       /\ c - (b + 1) \in {1, 2} /\ c = Len(dateStr) + 1
    THEN <<SubSeq(dateStr, 1, 4), SubSeq(dateStr, a + 1, b - 1), SubSeq(dateStr, b + 1, c - 1)>>
    ELSE <<>>)))

\* parseDate of processFile on a text of the form digits-digits-digits: the
\* second group is read as the day and the third as the month unless one
\* of them exceeds 12; the result is the UTC day number
parseDate(dateStr) ==
  With(MatchYearDashes(dateStr), LAMBDA g :
  With(parseInt(g[1]), LAMBDA year :
  With(parseInt(g[2]), LAMBDA day :
  With(parseInt(g[3]), LAMBDA month :
    IF day > 12 THEN MakeDay(year, month - 1, day)
    ELSE IF month > 12 THEN MakeDay(year, day - 1, month)
    ELSE MakeDay(year, month - 1, day)))))

\* one element of parsedTransactions.map(...) in processFile
ConvertTransaction(pt) ==
  LET amount == IF pt.type = "expense" /\ pt.amount > 0 THEN -pt.amount
                ELSE IF pt.type = "income" /\ pt.amount < 0 THEN abs(pt.amount)
                ELSE pt.amount
  IN  [date |-> ISODateOfDay(parseDate(pt.date)), description |-> pt.description,
       amount |-> amount]

ConvertAll(parsedTransactions) ==
  [i \in 1..Len(parsedTransactions) |-> ConvertTransaction(parsedTransactions[i])]

(***************************************************************************)
(* Deduplication                                                           *)
(***************************************************************************)
\* Number.prototype.toFixed(2) of a non-negative number of hundredths
toFixed2(cents) == toString(cents \div 100) \o "." \o padStart2(toString(cents % 100))

\* `${dateStr}_${t.description.trim()}_${Math.abs(t.amount).toFixed(2)}`
DedupKey(t) == t.date \o "_" \o trim(t.description) \o "_" \o toFixed2(abs(t.amount))

removeDuplicatesFromStorage_Keep(transactions) == transactions

RECURSIVE removeDuplicatesFromStorage(_)
\* the first record of every key, in order
removeDuplicatesFromStorage(transactions) ==
  IF transactions = <<>> THEN <<>>
  ELSE LET front == removeDuplicatesFromStorage(SubSeq(transactions, 1, Len(transactions) - 1))
           t     == transactions[Len(transactions)]
       IN  IF \E i \in 1..Len(front) : DedupKey(front[i]) = DedupKey(t)
           THEN front ELSE Append(front, t)

deduplicateTransactions_KeepAll(existing, newTxns) == existing \o newTxns

deduplicateTransactions(existing, newTxns) ==
  LET existingSet == {DedupKey(existing[i]) : i \in 1..Len(existing)}
  IN  existing \o SelectSeq(newTxns, LAMBDA t : DedupKey(t) \notin existingSet)

\* the merge one import performs: the store is cleaned, then the new
\* records are merged into it
merge(E, N) == deduplicateTransactions(removeDuplicatesFromStorage(E), N)

(***************************************************************************)
(* The parser of services/pdf-parser.ts, which the upload view imports     *)
(***************************************************************************)
\* bankPatterns.cih.indicators and bankPatterns.attijariwafa.indicators
SvcCihIndicators ==
  {"cih bank", "cih.co.ma", "releve de compte bancaire", "cih",
   "mediateur@cih.co.ma", "reclamations-clients@cih.co.ma"}

SvcAwbIndicators == {"attijariwafa", "wafabank", "attijariwafa bank"}

svcDetectBankType(textLines) ==
  With(toLowerCase(join(textLines, 1)), LAMBDA text :
      IF \E ind \in SvcCihIndicators : includes(text, ind)
      THEN "cih"
      ELSE IF \E ind \in SvcAwbIndicators : includes(text, ind)
      THEN "attijariwafa"
      ELSE IF \E i \in 1..Len(textLines) :
                textLines[i] # "" /\ Search(trim(textLines[i]), CihPairRe).ok
      THEN "cih"
      ELSE IF \E i \in 1..Len(textLines) :
                textLines[i] # "" /\ MatchAt(trim(textLines[i]), 1, AwbCodeRe).ok
      THEN "attijariwafa"
      ELSE "unknown")

svcNormalizeAmount(amountStr) ==
  IF amountStr = "" THEN 0
  ELSE parseFloatCents(ReplaceFirst(ReplaceAll("spaces", amountStr, 1), ",", "."))

svcNormalizeAmountWithSign(amountStr, isCredit) ==
  With(svcNormalizeAmount(amountStr), LAMBDA amount :
    IF isCredit THEN abs(amount) ELSE -abs(amount))

RECURSIVE Split(_, _, _)
\* String.prototype.split on a one-character separator; runs of the
\* separator count as one when the separator is white space (split(/\s+/))
Split(s, sep, i) ==
  IF i > Len(s) THEN <<"">>
  ELSE IF Ch(s, i) = sep
       THEN <<"">> \o Split(s, sep, IF sep = " " THEN SkipSpaces(s, i) ELSE i + 1)
       ELSE With(Split(s, sep, i + 1), LAMBDA rest :
              <<Ch(s, i) \o Head(rest)>> \o Tail(rest))

\* normalizeDate: no range is checked; the year is the third part, else the
\* year passed in, else 2024.  The empty text stands for null.
normalizeDate(dateStr, year) ==
  IF dateStr = "" THEN ""
  ELSE
    With(trim(dateStr), LAMBDA cleaned :
    With(includes(cleaned, "/"), LAMBDA slash :
    With(Split(cleaned, IF slash THEN "/" ELSE " ", 1), LAMBDA parts :
      IF Len(parts) < 2 THEN ""
      ELSE
        With(IF Len(parts) >= 3 /\ parts[3] # "" THEN parts[3]
             ELSE IF year # "" THEN year ELSE "2024", LAMBDA y0 :
          (IF ~slash /\ Len(y0) = 2 THEN "20" \o y0 ELSE y0)
          \o "-" \o (IF parts[2] # "" THEN padStart2(parts[2]) ELSE "01")
          \o "-" \o (IF parts[1] # "" THEN padStart2(parts[1]) ELSE "01")))))

SvcRecord(code, description, amount, isCredit, operISO, valueISO, line) ==
  [code |-> code, description |-> description, amount |-> amount,
   amountNumeric |-> svcNormalizeAmountWithSign(amount, isCredit),
   debitCreditType |-> IF isCredit THEN "credit" ELSE "debit",
   operationDateISO |-> operISO, valueDateISO |-> valueISO,
   isExpense |-> ~isCredit, isIncome |-> isCredit, rawLine |-> line]

\* description.replace(/\s*\d{2}\s+\d{2}\s+\d{4}\s*/, " "): the first match
CutFirstSpaceDate(s) ==
  With({i \in 1..Len(s) : SpaceDateAt(s, SkipSpaces(s, i)) > 0}, LAMBDA starts :
    IF starts = {} THEN s
    ELSE With(Least(starts), LAMBDA i :
         With(SkipSpaces(s, i), LAMBDA d :
           SubSeq(s, 1, i - 1) \o " " \o From(s, SkipSpaces(s, d + SpaceDateAt(s, d))))))

\* the text of the first /(\d{2}\s+\d{2}\s+\d{4})/ in s, "" when none
FirstSpaceDate(s) ==
  With({i \in 1..Len(s) : SpaceDateAt(s, i) > 0}, LAMBDA starts :
    IF starts = {} THEN ""
    ELSE With(Least(starts), LAMBDA i : SubSeq(s, i, i + SpaceDateAt(s, i) - 1)))

\* the record of a matched line: raw is the remainder without its amount,
\* inDesc the date found in it ("" when none)
SvcAwbRecord(line, code, day1, day2, amount, raw, inDesc) ==
  With(IF inDesc # "" THEN trim(CutFirstSpaceDate(raw)) ELSE raw, LAMBDA description :
    SvcRecord(code, description, amount, detectCreditTransaction(description),
              normalizeDate(day1 \o "/" \o day2 \o "/2024", ""),
              normalizeDate(IF inDesc # "" THEN inDesc ELSE day1 \o " " \o day2 \o " 2024", ""),
              line))

SvcAwbLine(line) ==
  With(trim(line), LAMBDA trimmedLine :
  With(MatchAt(trimmedLine, 1, AwbLineRe), LAMBDA m :
    IF trimmedLine = "" THEN <<>>
    ELSE IF includes(trimmedLine, "SOLDE DEPART") \/ includes(trimmedLine, "SOLDE FINAL")
            \/ includes(trimmedLine, "TOTAL MOUVEMENTS") THEN <<>>
    ELSE IF ~m.ok \/ m.end > Len(trimmedLine) THEN <<>>
    ELSE
      With(From(trimmedLine, m.end), LAMBDA remainder :
      With(AmountStart(remainder), LAMBDA start :
        IF start = 0 THEN <<>>
        ELSE
          With(trim(StripAmount(remainder)), LAMBDA raw :
            <<SvcAwbRecord(line, m.caps[1] \o m.caps[2] \o m.caps[3], m.caps[5], m.caps[7],
                           From(remainder, start), raw, FirstSpaceDate(raw))>>)))))

RECURSIVE parseAttijariwafaStatement(_, _)
parseAttijariwafaStatement(textLines, i) ==
  IF i > Len(textLines) THEN <<>>
  ELSE SvcAwbLine(textLines[i]) \o parseAttijariwafaStatement(textLines, i + 1)

\* /(?:NOUVEAU SOLDE|SOLDE FINAL|TOTAL).*(\d{2}\/\d{2}\/(\d{4}))/ : the year
\* of the last slash date that stands after one of the words, "" when none
YearAfterBalanceWord(line) ==
  With({j \in 1..Len(line) : SlashDate4At(line, j) > 0}, LAMBDA dates :
    IF dates = {} THEN ""
    ELSE With(CHOOSE j \in dates : \A k \in dates : k <= j, LAMBDA last :
           IF \E w \in {"NOUVEAU SOLDE", "SOLDE FINAL", "TOTAL"} :
                \E i \in 1..Len(line) : At(line, i, w) /\ i + Len(w) <= last
           THEN SubSeq(line, last + 6, last + 9)
           ELSE ""))

\* /\b(20\d{2})\b/ : the first free-standing year-like number, "" when none
FirstYearLike(line) ==
  With({i \in 1..Len(line) : YearLikeAt(line, i) > 0}, LAMBDA starts :
    IF starts = {} THEN ""
    ELSE With(Least(starts), LAMBDA i : SubSeq(line, i, i + 3)))

RECURSIVE SvcStatementYear(_, _, _)
\* step 1 of parseCIHStatement: the scan stops at the first balance line
\* with a date; before that the first year-like number anywhere is kept
SvcStatementYear(textLines, i, statementYear) ==
  IF i > Len(textLines) THEN (IF statementYear = "" THEN "2024" ELSE statementYear)
  ELSE IF textLines[i] = "" THEN SvcStatementYear(textLines, i + 1, statementYear)
  ELSE
    With(YearAfterBalanceWord(textLines[i]), LAMBDA balanceYear :
    With(FirstYearLike(textLines[i]), LAMBDA altYear :
      IF balanceYear # "" THEN balanceYear
      ELSE IF statementYear = "" /\ altYear # ""
      THEN SvcStatementYear(textLines, i + 1, altYear)
      ELSE SvcStatementYear(textLines, i + 1, statementYear)))

\* /^(\d{2}\/\d{2})/ of the pattern without a value date
CihOneDateRe == <<Dig(2), Lit("/"), Dig(2)>>

\* the record of a line matched with operation date and value date
SvcCihRecord(line, statementYear, operDate, valueDate, m) ==
  [SvcRecord("", trim(m.description), m.amount, detectCreditTransaction(m.description),
             normalizeDate(operDate, statementYear),
             normalizeDate(valueDate, statementYear), line)
   EXCEPT !.amount = trim(m.amount)]

SvcCihLine(line, statementYear) ==
  With(trim(line), LAMBDA trimmedLine :
  With(MatchAt(trimmedLine, 1, CihDatesRe), LAMBDA two :
  With(MatchAt(trimmedLine, 1, CihOneDateRe), LAMBDA one :
  With(IF two.ok THEN CihPatternA(trimmedLine, two.end) ELSE NoLineMatch, LAMBDA a :
  With(IF one.ok THEN CihPatternA(trimmedLine, one.end) ELSE NoLineMatch, LAMBDA b :
    IF trimmedLine = "" THEN <<>>
    ELSE IF includes(trimmedLine, "SOLDE DEPART") \/ includes(trimmedLine, "NOUVEAU SOLDE")
            \/ includes(trimmedLine, "TOTAL DES MOUVEMENTS") THEN <<>>
    ELSE IF a.ok
    THEN <<SvcCihRecord(line, statementYear, two.caps[1] \o two.caps[2] \o two.caps[3],
                        two.caps[5] \o two.caps[6] \o two.caps[7], a)>>
    ELSE IF b.ok
    THEN <<SvcCihRecord(line, statementYear, one.caps[1] \o one.caps[2] \o one.caps[3],
                        one.caps[1] \o one.caps[2] \o one.caps[3], b)>>
    ELSE <<>>)))))

RECURSIVE SvcCihLines(_, _, _)
SvcCihLines(textLines, statementYear, i) ==
  IF i > Len(textLines) THEN <<>>
  ELSE SvcCihLine(textLines[i], statementYear) \o SvcCihLines(textLines, statementYear, i + 1)

parseCIHStatement(textLines) ==
  SvcCihLines(textLines, SvcStatementYear(textLines, 1, ""), 1)

\* the completion of a record's properties: falsy texts get their defaults
SvcComplete(txn) ==
  [txn EXCEPT !.description = IF @ = "" THEN "Unknown transaction" ELSE @,
              !.amount = IF @ = "" THEN "0,00" ELSE @]

\* steps 2 and 3 of parseBankStatementPDF for the detected bank
SvcParseForBank(textLines, bank) ==
  With(IF bank = "cih" THEN parseCIHStatement(textLines)
       ELSE parseAttijariwafaStatement(textLines, 1), LAMBDA parsed0 :
    IF Len(parsed0) = 0 THEN Thrown("NO TRANSACTIONS WERE PARSED!")
    ELSE Returned([bank |-> IF bank = "cih" THEN "CIH" ELSE "Attijariwafa",
                   transactions |-> [i \in 1..Len(parsed0) |-> SvcComplete(parsed0[i])],
                   detectedBank |-> bank,
                   statementYear |-> IF bank = "cih"
                                     THEN SvcStatementYear(textLines, 1, "") ELSE ""]))

svcParseBankStatementPDF(textLines) == SvcParseForBank(textLines, svcDetectBankType(textLines))

\* parsePDFInternal: result.transactions.map(...)
SvcParsedTransaction(t) ==
  [ParsedTransaction(t) EXCEPT !.type = IF t.isExpense THEN "expense" ELSE "income"]

SvcParsedTransactions(transactions) ==
  [i \in 1..Len(transactions) |-> SvcParsedTransaction(transactions[i])]

\* what parsePDF makes of the outcome of parseBankStatementPDF
SvcParsePDFOutcome(result) ==
  IF ~result.ok THEN Thrown("PDF processing failed: " \o result.value)
  ELSE Returned(SvcParsedTransactions(result.value.transactions))

svcParsePDF(textLines) == SvcParsePDFOutcome(svcParseBankStatementPDF(textLines))

(***************************************************************************)
(* reconstructLinesFromTextItems                                           *)
(* A fragment is [str, y]: its text and its vertical position in tenths.   *)
(***************************************************************************)
\* Math.round of a number of tenths: the nearest integer, halves upwards
MathRound(tenths) == (tenths + 5) \div 10

\* the index of the first line that takes a fragment of rounded position y
\* (lines.find), 0 when there is none
FindLine(lines, y) ==
  LET near == {k \in 1..Len(lines) : abs(lines[k].y - y) < 2}
  IN  IF near = {} THEN 0 ELSE Least(near)

RECURSIVE PlaceItems(_, _, _)
\* textItems.forEach from item i on, lines being the lines built so far
PlaceItems(textItems, i, lines) ==
  IF i > Len(textItems) THEN lines
  ELSE IF trim(textItems[i].str) = "" THEN PlaceItems(textItems, i + 1, lines)
  ELSE LET y == MathRound(textItems[i].y)
           k == FindLine(lines, y)
       IN  IF k # 0
           THEN PlaceItems(textItems, i + 1,
                           [lines EXCEPT ![k].text = @ \o " " \o trim(textItems[i].str)])
           ELSE PlaceItems(textItems, i + 1,
                           Append(lines, [y |-> y, text |-> trim(textItems[i].str)]))

RECURSIVE InsertByY_Ascending(_, _)
InsertByY_Ascending(sorted, x) ==
  IF sorted = <<>> THEN <<x>>
  ELSE IF x.y - Head(sorted).y < 0 THEN <<x>> \o sorted
       ELSE <<Head(sorted)>> \o InsertByY_Ascending(Tail(sorted), x)

RECURSIVE InsertByY(_, _)
InsertByY(sorted, x) ==
  IF sorted = <<>> THEN <<x>>
  ELSE IF x.y - Head(sorted).y > 0 THEN <<x>> \o sorted
       ELSE <<Head(sorted)>> \o InsertByY(Tail(sorted), x)

RECURSIVE SortByYDescending(_)
\* Array.prototype.sort((a, b) => b.y - a.y): stable, highest position first
SortByYDescending(seq) ==
  IF seq = <<>> THEN <<>>
  ELSE InsertByY(SortByYDescending(SubSeq(seq, 1, Len(seq) - 1)), seq[Len(seq)])

reconstructLinesFromTextItems(textItems) ==
  LET sorted == SortByYDescending(PlaceItems(textItems, 1, <<>>))
      texts  == [k \in 1..Len(sorted) |-> trim(sorted[k].text)]
  IN  SelectSeq(texts, LAMBDA t : Len(t) > 0)

(***************************************************************************)
(* parsePDFInternal and extractTextFromPDF                                 *)
(* A promise of the PDF library settles "ok", rejects ("error") or stays   *)
(* pending beyond its time limit ("timeout").  Times are milliseconds.     *)
(***************************************************************************)
PipelineTimeout == 15000
OpenTimeout == 5000
PageTimeout == 3000
PageLimit == 5

\* withTimeout(promise, timeoutMs): Promise.race of the promise and a timer
withTimeout(settles, value, timeoutMs) ==
  IF settles = "ok" THEN Returned(value)
  ELSE IF settles = "timeout"
  THEN Thrown("Operation timed out after " \o toString(timeoutMs) \o "ms")
  ELSE Thrown("Invalid PDF structure")

\* the time a withTimeout of a promise that never settles takes
Waited(settles, timeoutMs) == IF settles = "timeout" THEN timeoutMs ELSE 0

\* const maxPages = Math.min(pdf.numPages, 5)
MaxPagesOf_All(numPages) == numPages
MaxPagesOf(numPages) == IF numPages < PageLimit THEN numPages ELSE PageLimit

\* the try block of one iteration of extractTextFromPDF: the page's lines,
\* or what was thrown
ProcessPage(page) ==
  With(withTimeout(page.getPage, page, PageTimeout), LAMBDA fetched :
    IF ~fetched.ok THEN fetched
    ELSE With(withTimeout(page.getTextContent, page.items, PageTimeout), LAMBDA textContent :
           IF ~textContent.ok THEN textContent
           ELSE Returned(reconstructLinesFromTextItems(textContent.value))))

\* the time the iteration spends at a promise that never settles
PageWaited(page) ==
  IF page.getPage # "ok" THEN Waited(page.getPage, PageTimeout)
  ELSE Waited(page.getTextContent, PageTimeout)

(***************************************************************************)
(* Values of the variable groups a specification does not use              *)
(***************************************************************************)
Pending == [ok |-> FALSE, value |-> "pending"]

IdleDate == dDay = "" /\ dMonth = "" /\ dYear = "" /\ dResult = Pending

NotConverted == [engine |-> "", transactions |-> <<>>]

IdleParse ==
  /\ doc = <<>> /\ tz = 0 /\ period = Pending /\ parsed = Pending /\ svcParsed = Pending
  /\ converted = NotConverted /\ consoleErrors = <<>>

IdleMerge == mE = <<>> /\ mN = <<>> /\ mOnce = Pending /\ mTwice = Pending

IdleLines == items = <<>> /\ pageLines = Pending

NoFile == [name |-> "", type |-> "", big |-> FALSE, textLines |-> <<>>]

\* no import runs in the background
NoImport == [file |-> NoFile, cleanedExisting |-> <<>>, entry |-> 0]

IdlePipe ==
  /\ engine = "" /\ store = <<>> /\ statements = <<>> /\ isProcessing = FALSE
  /\ error = "" /\ success = "" /\ pc = "idle" /\ file = NoFile
  /\ cleanedExisting = <<>> /\ addedCount = 0 /\ importsDone = 0 /\ history = <<>>
  /\ background = NoImport /\ edited = <<>> /\ currentView = "upload"

NoPdf == [open |-> "", pages |-> <<>>]

IdleExtract ==
  /\ xPdf = NoPdf /\ xPc = "idle" /\ xPageNum = 0 /\ xFetched = <<>>
  /\ xLines = <<>> /\ xElapsed = 0 /\ xResult = Pending

(***************************************************************************)
(* SpecDate: buildDateISO applied to every two-digit day and month and     *)
(* every year around the accepted range                                    *)
(***************************************************************************)
DayInputs   == {padStart2(toString(d)) : d \in (MinDay - 1)..(MaxDay + 1)}
MonthInputs == {padStart2(toString(m)) : m \in (MinMonth - 1)..(MaxMonth + 1)}
YearInputs  == {toString(y) : y \in (MinYear - 1)..(MaxYear + 1)}

InitDate ==
  /\ dDay \in DayInputs /\ dMonth \in MonthInputs /\ dYear \in YearInputs
  /\ dResult = Pending
  /\ IdleParse /\ IdleMerge /\ IdleLines /\ IdlePipe /\ IdleExtract

BuildDate ==
  /\ dResult = Pending
  /\ dResult' = buildDateISO(dDay, dMonth, dYear)
  /\ UNCHANGED <<dDay, dMonth, dYear, parseVars, mergeVars, lineVars, pipeVars, extractVars>>

NextDate == BuildDate

SpecDate == InitDate /\ [][NextDate]_vars

\* the number of days of month m (1..12) of year y, by the calendar rule
CalendarDays(m, y) ==
  IF m = 2 THEN (IF (y % 4 = 0 /\ y % 100 # 0) \/ y % 400 = 0 THEN 29 ELSE 28)
  ELSE IF m \in {4, 6, 9, 11} THEN 30 ELSE 31

DateArgsInRange ==
  /\ parseInt(dDay) \in MinDay..MaxDay
  /\ parseInt(dMonth) \in MinMonth..MaxMonth
  /\ parseInt(dYear) \in MinYear..MaxYear

\* C8: for day in 1..31, month in 1..12 and year in 2000..2030 buildDateISO
\* returns the zero-padded text YYYY-MM-DD carrying the given year and month,
\* and as day the smaller of the given day and the length of that month in
\* that year (leap years included), so never a day of the following month.
C8_BuildDateISOClamps ==
  (dResult # Pending /\ DateArgsInRange) =>
    /\ dResult.ok
    /\ Len(dResult.value) = 10
    /\ SubSeq(dResult.value, 1, 4) = dYear
    /\ Ch(dResult.value, 5) = "-"
    /\ SubSeq(dResult.value, 6, 7) = dMonth
    /\ Ch(dResult.value, 8) = "-"
    /\ DigitsAt(dResult.value, 9, 2)
    /\ LET len == CalendarDays(parseInt(dMonth), parseInt(dYear))
            d   == parseInt(dDay)
       IN  parseInt(SubSeq(dResult.value, 9, 10)) = (IF d < len THEN d ELSE len)

\* C8 witness: 31 February of a leap year was clamped to 29 February
C8_Witness ==
  dDay = "31" /\ dMonth = "02" /\ dYear = "2024" /\ dResult = Returned("2024-02-29")

(***************************************************************************)
(* SpecParse: one document, a sequence of reconstructed lines, is parsed   *)
(* by both parser implementations in a host of some UTC offset, and the    *)
(* records of either are converted as the upload view converts them        *)
(***************************************************************************)
MaxLines == 3

Corpus ==
  {"SOLDE FINAL AU 31 07 2024  5 000,00 CREDITEUR",
   "SOLDE DEPART AU 30 06 2024  3 000,00 DEBITEUR",
   "SOLDE FINAL AU 31 08 2024  9 000,00 CREDITEUR",
   "0016BK01 07 VIR.EMIS WEB VERS Smart Stooners 28 06 2024 1 200,00",
   "0016BK 07 01 VIR.EMIS WEB VERS Smart Stooners 28 06 2024 1 200,00",
   "0016BK 01 07 VERSEMENT ESPECES 500,00",
   "0016BK 31 07 PAIEMENT CARTE 2024,50",
   "0016BK 15 07 RETRAIT GAB 0,00",
   "05/07 06/07 PAIEMENT CARTE 12 345,00"}

\* hours by which the host's clock is ahead of UTC
Offsets == {-5, 1}

RECURSIVE SeqsOfLen(_, _)
SeqsOfLen(S, n) ==
  IF n = 0 THEN {<<>>}
  ELSE {Append(q, x) : q \in SeqsOfLen(S, n - 1), x \in S}

SeqsUpTo(S, n) == UNION {SeqsOfLen(S, k) : k \in 0..n}

InitParse ==
  /\ doc \in SeqsUpTo(Corpus, MaxLines) \ {<<>>}
  /\ tz \in Offsets
  /\ period = Pending /\ parsed = Pending /\ svcParsed = Pending /\ converted = NotConverted
  /\ consoleErrors = <<>>
  /\ IdleDate /\ IdleMerge /\ IdleLines /\ IdlePipe /\ IdleExtract

ParseEnhanced ==
  /\ parsed = Pending
  /\ period' = extractStatementPeriod(doc)
  /\ parsed' = parseBankStatementPDF(doc, tz)
  /\ consoleErrors' = ParseConsoleErrors(doc)
  /\ UNCHANGED <<doc, tz, svcParsed, converted, dateVars, mergeVars, lineVars, pipeVars, extractVars>>

ParseServices ==
  /\ svcParsed = Pending
  /\ svcParsed' = svcParseBankStatementPDF(doc)
  /\ UNCHANGED <<doc, tz, period, parsed, converted, consoleErrors, dateVars, mergeVars, lineVars, pipeVars, extractVars>>

ConvertEnhanced ==
  /\ parsed.ok /\ converted = NotConverted
  /\ converted' = [engine |-> "enhanced",
                   transactions |-> ConvertAll(ParsePDFOutcome(parsed).value)]
  /\ UNCHANGED <<doc, tz, period, parsed, svcParsed, consoleErrors, dateVars, mergeVars, lineVars, pipeVars, extractVars>>

ConvertServices ==
  /\ svcParsed.ok /\ converted = NotConverted
  /\ converted' = [engine |-> "services",
                   transactions |-> ConvertAll(SvcParsePDFOutcome(svcParsed).value)]
  /\ UNCHANGED <<doc, tz, period, parsed, svcParsed, consoleErrors, dateVars, mergeVars, lineVars, pipeVars, extractVars>>

NextParse == ParseEnhanced \/ ParseServices \/ ConvertEnhanced \/ ConvertServices

SpecParse == InitParse /\ [][NextParse]_vars

\* the text of an amount read as a decimal number, in hundredths: white
\* space removed, the comma read as the decimal point
DecimalValue(text) ==
  parseFloatCents(ReplaceFirst(ReplaceAll("spaces", text, 1), ",", "."))

Records == IF parsed.ok THEN parsed.value.transactions ELSE <<>>

\* C3: every record of a successful parse has a non-zero amountNumeric that
\* is positive exactly when the record is a credit (isIncome) and negative
\* exactly when it is a debit (isExpense), the direction being the one the
\* description's keywords give; the transaction the upload view builds from
\* the record carries the same signed amount.
C3_SignLaw ==
  /\ \A i \in 1..Len(Records) :
       LET t == Records[i]
       IN  /\ t.amountNumeric # 0
           /\ (t.amountNumeric > 0) = t.isIncome
           /\ (t.amountNumeric < 0) = t.isExpense
           /\ t.isIncome = (t.debitCreditType = "credit")
           /\ t.isIncome = detectCreditTransaction(t.description)
  /\ converted.engine = "enhanced" =>
       /\ Len(converted.transactions) = Len(Records)
       /\ \A i \in 1..Len(Records) :
            converted.transactions[i].amount = Records[i].amountNumeric

\* C3 witness: a parse returned a credit and a debit and both were converted
C3_Witness ==
  /\ converted.engine = "enhanced"
  /\ \E i, j \in 1..Len(Records) :
       /\ Records[i].isIncome /\ converted.transactions[i].amount > 0
       /\ Records[j].isExpense /\ converted.transactions[j].amount < 0

\* C4: for every record the magnitude of amountNumeric is the decimal value
\* of the record's amount text (thousands spaces removed, comma as decimal
\* point), also when the integer part has four digits and no space.
C4_MagnitudeIsAmountText ==
  \A i \in 1..Len(Records) :
    abs(Records[i].amountNumeric) = DecimalValue(Records[i].amount)

\* C27: the conversion of a record to a stored transaction keeps its date:
\* the date of the transaction, as year, month and day in UTC, is the
\* record's operationDateISO, and so its month is the month of the
\* statement period.
C27_ConversionKeepsDate ==
  converted.engine = "enhanced" =>
    \A i \in 1..Len(Records) :
      /\ converted.transactions[i].date = Records[i].operationDateISO
      /\ SubSeq(converted.transactions[i].date, 6, 7) = period.value.month

\* the candidate the priority rule designates: lowest priority number, and
\* among those the one of the earliest line
Designated(found) ==
  LET lowest == Least({found[i].priority : i \in 1..Len(found)})
  IN  found[Least({i \in 1..Len(found) : found[i].priority = lowest})]

\* C5: among all balance-anchor candidates of the line sequence the chosen
\* period is the one with the lowest priority number (closing before
\* opening wherever the lines stand) and, among equals, the earliest line's.
C5_PeriodChoice ==
  (period # Pending /\ FoundPeriods(doc, 1) # <<>>) =>
    /\ period.ok
    /\ LET d == Designated(FoundPeriods(doc, 1))
       IN  /\ period.value.year = d.year /\ period.value.month = d.month
           /\ period.value.day = d.day /\ period.value.source = d.source
           /\ period.value.lineNumber = d.lineNumber

\* C5 witness: the opening balance line came first and the closing balance
\* line after it, and the closing balance's month was chosen
C5_Witness ==
  /\ Len(doc) >= 2
  /\ doc[1] = "SOLDE DEPART AU 30 06 2024  3 000,00 DEBITEUR"
  /\ doc[2] = "SOLDE FINAL AU 31 07 2024  5 000,00 CREDITEUR"
  /\ period.ok /\ period.value.month = "07" /\ period.value.source = "AWB_CLOSING"

\* C6: when no line matches a balance-anchor pattern the parse fails for
\* want of a period and returns no record, whichever parser and variant
\* handles the document, and no default year stands in for the period.
C6_NoAnchorNoRecords ==
  FoundPeriods(doc, 1) = <<>> =>
    /\ parsed # Pending =>
         parsed = Thrown("No balance lines found - cannot determine statement period")
    /\ svcParsed # Pending => ~svcParsed.ok

\* C7: the line of code 0016BK01, token 07, description, embedded date and
\* amount 1 200,00, parsed under the period (2024, 07), gives exactly one
\* record: that description, -1200.00, debit, 2024-07-07.
C7_ScenarioRecord ==
  (parsed # Pending
   /\ doc = <<"SOLDE FINAL AU 31 07 2024  5 000,00 CREDITEUR",
              "0016BK01 07 VIR.EMIS WEB VERS Smart Stooners 28 06 2024 1 200,00">>) =>
    /\ parsed.ok
    /\ Len(Records) = 1
    /\ Records[1].description = "VIR.EMIS WEB VERS Smart Stooners"
    /\ Records[1].amountNumeric = -120000
    /\ Records[1].debitCreditType = "debit"
    /\ Records[1].operationDateISO = "2024-07-07"

\* C9: whenever a parse returns records, the operation date and the value
\* date of every record lie in the year and month of the resolved period,
\* as texts and as the calendar fields the host reads from them; a parse
\* whose records would not is not returned.
C9_PeriodConsistency ==
  \A i \in 1..Len(Records) :
    LET t == Records[i]
    IN  /\ SubSeq(t.operationDateISO, 1, 7) = period.value.year \o "-" \o period.value.month
        /\ SubSeq(t.valueDateISO, 1, 7) = period.value.year \o "-" \o period.value.month
        /\ MonthKey(t.operationDateISO, tz) = period.value.year \o "-" \o period.value.month

\* C9 witness: in a host west of UTC a parse returned two records
C9_Witness == tz < 0 /\ parsed.ok /\ Len(Records) >= 2

(***************************************************************************)
(* SpecDates: documents that begin with a closing balance line of July, of *)
(* June or of a thirteenth month of 2024 and go on with lines of both      *)
(* variants whose date tokens agree or disagree with the period or are out *)
(* of range                                                                *)
(***************************************************************************)
DateAnchors ==
  {"SOLDE FINAL AU 31 07 2024  5 000,00 CREDITEUR",
   "SOLDE FINAL AU 30 06 2024  5 000,00 CREDITEUR",
   "SOLDE FINAL AU 31 13 2024  5 000,00 CREDITEUR"}

DateLines ==
  {"05/06 31/08 PAIEMENT CARTE 100,00",
   "09/07 10/07 ACHAT 10,00",
   "00/07 10/07 ACHAT 10,00",
   "0016BK 07 01 VIR.EMIS WEB VERS Smart Stooners 28 06 2024 1 200,00",
   "0016BK 32 07 ACHAT 10,00",
   "0016BK 31 07 VERSEMENT ESPECES 500,00"}

InitDates ==
  /\ doc \in {<<a>> \o body : a \in DateAnchors,
                               body \in SeqsUpTo(DateLines, MaxLines) \ {<<>>}}
  /\ tz \in Offsets
  /\ period = Pending /\ parsed = Pending /\ svcParsed = Pending /\ converted = NotConverted
  /\ consoleErrors = <<>>
  /\ IdleDate /\ IdleMerge /\ IdleLines /\ IdlePipe /\ IdleExtract

SpecDates == InitDates /\ [][NextParse]_vars

\* YYYY-MM-DD of a year text, a month text and a day text of two digits
IsoOf(year, month, day) == year \o "-" \o month \o "-" \o day

\* C14: every record of the statement-pair variant (DD/MM DD/MM description
\* amount) has as operation date the day and the month of its first date
\* token and as value date the day and the month of its second date token,
\* both in the year of the resolved period.
C14_CihDatesFromTokens ==
  (parsed.ok /\ parsed.value.bank = "cih") =>
    \A i \in 1..Len(Records) :
      LET d == MatchAt(trim(Records[i].rawLine), 1, CihDatesRe)
      IN  /\ d.ok
          /\ Records[i].operationDateISO = IsoOf(period.value.year, d.caps[3], d.caps[1])
          /\ Records[i].valueDateISO = IsoOf(period.value.year, d.caps[7], d.caps[5])

\* the day n clamped to the length of the period's month
ClampedDayText(n, statementPeriod) ==
  LET len == CalendarDays(parseInt(statementPeriod.month), parseInt(statementPeriod.year))
  IN  padStart2(toString(IF n > len THEN len ELSE n))

\* the operation date C15 requires of a record of the code variant
AwbExpectedDate(rawLine, statementPeriod) ==
  IsoOf(statementPeriod.year, statementPeriod.month,
        ClampedDayText(parseInt(MatchAt(trim(rawLine), 1, AwbLineRe).caps[5]), statementPeriod))

\* C15: every record of a code-variant line (<code> <n1> <n2> <rest>
\* <amount>) has as operation date the year and the month of the resolved
\* period and the day n1 clamped to the length of that month, whatever n2
\* and the dates written in the rest of the line are; this holds for the
\* records of either implementation of the code-variant extractor.
C15_AwbDateFromPeriod ==
  /\ (parsed.ok /\ parsed.value.bank # "cih") =>
       \A i \in 1..Len(Records) :
         Records[i].operationDateISO = AwbExpectedDate(Records[i].rawLine, period.value)
  /\ (svcParsed.ok /\ svcParsed.value.detectedBank # "cih"
      /\ extractStatementPeriod(doc).ok) =>
       \A i \in 1..Len(svcParsed.value.transactions) :
         svcParsed.value.transactions[i].operationDateISO
           = AwbExpectedDate(svcParsed.value.transactions[i].rawLine,
                             extractStatementPeriod(doc).value)

\* the message of the date failure of a line under the variant bank, ""
\* when the line has none
DateErrorOf(bank, line) ==
  IF bank = "cih" THEN CihDateError(line, period.value)
  ELSE AwbDateError(line, period.value)

\* the day tokens of a line under the variant bank
DayTokens(bank, line) ==
  IF bank = "cih"
  THEN {MatchAt(trim(line), 1, CihDatesRe).caps[1], MatchAt(trim(line), 1, CihDatesRe).caps[5]}
  ELSE {MatchAt(trim(line), 1, AwbLineRe).caps[5]}

PeriodInRange ==
  /\ parseInt(period.value.month) \in MinMonth..MaxMonth
  /\ parseInt(period.value.year) \in MinYear..MaxYear

\* the messages of the date failures of the lines of the document, in order
DateErrors(bank) ==
  SelectSeq([i \in 1..Len(doc) |-> DateErrorOf(bank, doc[i])], LAMBDA e : e # "")

LinesWithoutDateError(bank) == SelectSeq(doc, LAMBDA l : DateErrorOf(bank, l) = "")

\* the parse by the enhanced parser has just been made
JustParsed == parsed # Pending /\ svcParsed = Pending /\ converted = NotConverted

AmountLines ==
  {"0016BK 15 07 ACHAT 10 000 000,00",
   "0016BK 15 07 ACHAT 10 000 000,01",
   "0016BK 15 07 RETRAIT GAB 0,00",
   "0016BK 16 07 VERSEMENT ESPECES 500,00",
   "05/07 06/07 ACHAT 10 000 000,00",
   "05/07 06/07 ACHAT 10 000 000,01",
   "05/07 06/07 ACHAT ,",
   "07/07 08/07 PAIEMENT CARTE 100,00"}

InitAmounts ==
  /\ doc \in {<<"SOLDE FINAL AU 31 07 2024  5 000,00 CREDITEUR">> \o body :
                body \in SeqsUpTo(AmountLines, MaxLines) \ {<<>>}}
  /\ tz \in Offsets
  /\ period = Pending /\ parsed = Pending /\ svcParsed = Pending /\ converted = NotConverted
  /\ consoleErrors = <<>>
  /\ IdleDate /\ IdleMerge /\ IdleLines /\ IdlePipe /\ IdleExtract

SpecAmounts == InitAmounts /\ [][NextParse]_vars

\* the amount text that the extractor of the variant bank takes from the
\* line, as a sequence of one text; the empty sequence when the line is not
\* a transaction line of the variant
AmountTextOf(bank, line) ==
  With(trim(line), LAMBDA trimmedLine :
    IF trimmedLine = "" \/ includes(trimmedLine, "SOLDE") \/ includes(trimmedLine, "TOTAL")
    THEN <<>>
    ELSE IF bank = "cih"
    THEN With(MatchAt(trimmedLine, 1, CihDatesRe), LAMBDA d :
           IF ~d.ok THEN <<>>
           ELSE With(CihMatch(trimmedLine, d.end), LAMBDA m :
                  IF m.ok THEN <<m.amount>> ELSE <<>>))
    ELSE With(MatchAt(trimmedLine, 1, AwbLineRe), LAMBDA m :
           IF ~m.ok \/ m.end > Len(trimmedLine) THEN <<>>
           ELSE With(From(trimmedLine, m.end), LAMBDA remainder :
                  IF AmountStart(remainder) = 0 THEN <<>>
                  ELSE <<From(remainder, AmountStart(remainder))>>)))

\* the normalized magnitude of the amount of a transaction line, in hundredths
MagnitudeOf(bank, line) == normalizeAmount(AmountTextOf(bank, line)[1])

IsTransactionLine(bank, line) == AmountTextOf(bank, line) # <<>>

AmountOutOfRange(bank, line) ==
  /\ IsTransactionLine(bank, line)
  /\ MagnitudeOf(bank, line) = 0 \/ MagnitudeOf(bank, line) > MaxAmount * 100

\* C17: a transaction line whose normalized amount is 0 (an amount text
\* that is no number included) or more than 10,000,000 gives no record and
\* does not abort the document, in either variant: every record has a
\* magnitude in 0,01 .. 10,000,000, the outcome of the parse is that of the
\* document without such lines, and a successful parse holds one record
\* for every other transaction line, in the order of the lines.
C17_BadAmountSkipped ==
  (JustParsed /\ period.ok) =>
    LET bank == detectBankType(doc)
        good == SelectSeq(doc, LAMBDA l : ~AmountOutOfRange(bank, l))
    IN  /\ \A k \in 1..Len(Records) :
             /\ ~AmountOutOfRange(bank, Records[k].rawLine)
             /\ abs(Records[k].amountNumeric) \in 1..(MaxAmount * 100)
        /\ detectBankType(good) = bank => parsed = parseBankStatementPDF(good, tz)
        /\ parsed.ok =>
             [k \in 1..Len(Records) |-> Records[k].rawLine]
               = SelectSeq(good, LAMBDA l : IsTransactionLine(bank, l))

\* a line over the limit and a line with amount 0 are skipped between two
\* lines that are extracted, the first with exactly 10,000,000
C17_Witness ==
  /\ JustParsed /\ parsed.ok /\ Len(doc) = 4 /\ Len(Records) = 2
  /\ AmountOutOfRange(detectBankType(doc), doc[3])
  /\ Records[1].rawLine = doc[2] /\ abs(Records[1].amountNumeric) = MaxAmount * 100
  /\ Records[2].rawLine = doc[4]

(***************************************************************************)
(* SpecGrammar: statements of July 2024 whose lines end in amounts written *)
(* with digits before them, with two spaces or with one fractional digit   *)
(***************************************************************************)
GrammarLines ==
  {"0016BK 15 07 ACHAT 12  500,00",
   "0016BK 15 07 PAIEMENT CARTE 1234 500,00",
   "0016BK 16 07 VERSEMENT ESPECES 1 500,00",
   "05/07 06/07 ACHAT 12,5",
   "05/07 06/07 RETRAIT GAB 1 200,00"}

InitGrammar ==
  /\ doc \in {<<"SOLDE FINAL AU 31 07 2024  5 000,00 CREDITEUR">> \o body :
                body \in SeqsUpTo(GrammarLines, MaxLines) \ {<<>>}}
  /\ tz \in Offsets
  /\ period = Pending /\ parsed = Pending /\ svcParsed = Pending /\ converted = NotConverted
  /\ consoleErrors = <<>>
  /\ IdleDate /\ IdleMerge /\ IdleLines /\ IdlePipe /\ IdleExtract

SpecGrammar == InitGrammar /\ [][NextParse]_vars

RECURSIVE GrammarTail(_, _)
\* from position j on: groups of digits, each after one space, then a comma
\* and two digits that end the text
GrammarTail(s, j) ==
  IF At(s, j, ",") THEN DigitsAt(s, j + 1, 2) /\ j + 2 = Len(s)
  ELSE /\ At(s, j, " ") /\ j + 1 <= Len(s) /\ IsDigit(Ch(s, j + 1))
       /\ GrammarTail(s, SkipDigits(s, j + 1))

\* the text is of the amount grammar: groups of digits separated by a single
\* space, a comma, two digits
IsAmountText(s) == s # "" /\ IsDigit(Ch(s, 1)) /\ GrammarTail(s, SkipDigits(s, 1))

\* the text ends the line
EndsLine(line, s) ==
  Len(s) <= Len(trim(line)) /\ From(trim(line), Len(trim(line)) - Len(s) + 1) = s

\* C21: in both variants the amount text of every record is a text of the
\* amount grammar (groups of digits separated by a single space, a comma,
\* two fractional digits) and ends the record's line.
C21_AmountIsTrailingRun ==
  \A i \in 1..Len(Records) :
    /\ IsAmountText(Records[i].amount)
    /\ EndsLine(Records[i].rawLine, Records[i].amount)

(***************************************************************************)
(* SpecOrder: statements of July 2024 with blank lines, total lines, lines *)
(* with a bad day or amount and transaction lines of either variant        *)
(***************************************************************************)
OrderLines ==
  {" ",
   "TOTAL MOUVEMENTS 1 200,00",
   "0016BK 16 07 VERSEMENT ESPECES 500,00",
   "0016BK 17 07 ACHAT 10,00",
   "0016BK 32 07 ACHAT 10,00",
   "0016BK 18 07 RETRAIT GAB 0,00",
   "05/07 06/07 PAIEMENT CARTE 100,00",
   "07/07 08/07 ACHAT 10,00"}

InitOrder ==
  /\ doc \in {<<"SOLDE FINAL AU 31 07 2024  5 000,00 CREDITEUR">> \o body :
                body \in SeqsUpTo(OrderLines, MaxLines) \ {<<>>}}
  /\ tz \in Offsets
  /\ period = Pending /\ parsed = Pending /\ svcParsed = Pending /\ converted = NotConverted
  /\ consoleErrors = <<>>
  /\ IdleDate /\ IdleMerge /\ IdleLines /\ IdlePipe /\ IdleExtract

SpecOrder == InitOrder /\ [][NextParse]_vars

\* the line is one that must give a record under the variant bank: it is a
\* transaction line of the variant (not blank, no balance line, no total
\* line, of the variant's grammar) with an amount and day tokens in range
Qualifies(bank, line) ==
  /\ IsTransactionLine(bank, line)
  /\ ~AmountOutOfRange(bank, line)
  /\ \A d \in DayTokens(bank, line) : parseInt(d) \in MinDay..MaxDay

DetectLines ==
  {"ATTIJARIWAFA BANK",
   "CIH BANK",
   "RELEVE DE COMPTE BANCAIRE",
   "SOLDE FINAL AU 31 07 2024  5 000,00 CREDITEUR",
   "05/07 06/07 PAIEMENT CARTE 12 345,00",
   "0016BK 01 07 VERSEMENT ESPECES 500,00"}

InitDetect ==
  /\ doc \in SeqsUpTo(DetectLines, MaxLines) \ {<<>>}
  /\ tz \in Offsets
  /\ period = Pending /\ parsed = Pending /\ svcParsed = Pending /\ converted = NotConverted
  /\ consoleErrors = <<>>
  /\ IdleDate /\ IdleMerge /\ IdleLines /\ IdlePipe /\ IdleExtract

SpecDetect == InitDetect /\ [][NextParse]_vars

\* some line holds a DD/MM DD/MM pair; some line starts with a code and two
\* numbers of two digits
HasPairLine(textLines) ==
  \E i \in 1..Len(textLines) : Search(trim(textLines[i]), CihPairRe).ok

HasCodeLine(textLines) ==
  \E i \in 1..Len(textLines) : MatchAt(trim(textLines[i]), 1, AwbCodeRe).ok

\* C18: detectBankType of services/pdf-parser.ts answers attijariwafa or
\* cih for every sequence of lines, never unknown, by the first match of:
\* a brand indicator in the lower-cased joined text, a line with a DD/MM
\* DD/MM pair (cih), a line starting with the code and two numbers
\* (attijariwafa), and attijariwafa otherwise; a brand indicator therefore
\* overrides the patterns of the lines.
C18_DetectTotalOrdered ==
  svcParsed # Pending =>
    LET bank == svcDetectBankType(doc)
        text == toLowerCase(join(doc, 1))
        brandCih == \E ind \in SvcCihIndicators : includes(text, ind)
        brandAwb == \E ind \in SvcAwbIndicators : includes(text, ind)
    IN  /\ bank \in {"attijariwafa", "cih"}
        /\ brandCih => bank = "cih"
        /\ (~brandCih /\ brandAwb) => bank = "attijariwafa"
        /\ (~brandCih /\ ~brandAwb /\ HasPairLine(doc)) => bank = "cih"
        /\ (~brandCih /\ ~brandAwb /\ ~HasPairLine(doc)) => bank = "attijariwafa"

(***************************************************************************)
(* SpecMerge: the merge of an import applied to a store E and to new       *)
(* records N, and applied again to its own result with the same N          *)
(***************************************************************************)
MaxMerge == 2

\* the second record has the key of the first: the trailing space is
\* trimmed and the sign is dropped by the key
TxnUniverse ==
  {[date |-> "2024-07-07", description |-> "ACHAT", amount |-> -1000],
   [date |-> "2024-07-07", description |-> "ACHAT ", amount |-> 1000],
   [date |-> "2024-07-08", description |-> "VERSEMENT", amount |-> 50000]}

InitMerge ==
  /\ mE \in SeqsUpTo(TxnUniverse, MaxMerge)
  /\ mN \in SeqsUpTo(TxnUniverse, MaxMerge)
  /\ mOnce = Pending /\ mTwice = Pending
  /\ IdleDate /\ IdleParse /\ IdleLines /\ IdlePipe /\ IdleExtract

MergeOnce ==
  /\ mOnce = Pending
  /\ mOnce' = Returned(merge(mE, mN))
  /\ UNCHANGED <<mE, mN, mTwice, dateVars, parseVars, lineVars, pipeVars, extractVars>>

MergeTwice ==
  /\ mOnce.ok /\ mTwice = Pending
  /\ mTwice' = Returned(merge(mOnce.value, mN))
  /\ UNCHANGED <<mE, mN, mOnce, dateVars, parseVars, lineVars, pipeVars, extractVars>>

NextMerge == MergeOnce \/ MergeTwice

SpecMerge == InitMerge /\ [][NextMerge]_vars

\* C1: merging the same new records into the result of a merge changes
\* nothing: merge(merge(E, N), N) is merge(E, N), record for record, also
\* when N holds several records of one key.
C1_MergeIdempotent == mTwice.ok => mTwice.value = mOnce.value

\* the records of the list that are the first of their key, in their order
FirstOfKey(list) ==
  LET tagged == [i \in 1..Len(list) |-> [index |-> i, record |-> list[i]]]
      firsts == SelectSeq(tagged, LAMBDA p :
                  \A j \in 1..(p.index - 1) : DedupKey(list[j]) # DedupKey(p.record))
  IN  [k \in 1..Len(firsts) |-> firsts[k].record]

\* the records of the new list whose key no existing record has
AbsentFrom(existing, newTxns) ==
  SelectSeq(newTxns, LAMBDA t : \A i \in 1..Len(existing) : DedupKey(existing[i]) # DedupKey(t))

\* C22: the merge gives the existing records that are the first of their
\* key, unaltered and in their order, followed by exactly the new records
\* whose key no existing record has, in their order; the count of added
\* records (length of the result less length of the cleaned existing list)
\* is the number of new records appended.
C22_MergeShape ==
  mOnce.ok =>
    /\ mOnce.value = FirstOfKey(mE) \o AbsentFrom(mE, mN)
    /\ Len(mOnce.value) - Len(FirstOfKey(mE)) = Len(AbsentFrom(mE, mN))

\* the existing list holds two records of one key, and of the two new
\* records one has that key and one has a key of its own
C22_Witness ==
  /\ mOnce.ok /\ Len(mE) = 2 /\ Len(mN) = 2
  /\ mE[1] # mE[2] /\ DedupKey(mE[1]) = DedupKey(mE[2])
  /\ DedupKey(mN[1]) = DedupKey(mE[1]) /\ DedupKey(mN[2]) # DedupKey(mE[1])
  /\ mOnce.value = <<mE[1], mN[2]>>

(***************************************************************************)
(* SpecLines: the fragments of one page are put into lines                 *)
(***************************************************************************)
MaxItems == 3

\* positions 10.0, 10.4, 11.6 and 12.4
Positions == {100, 104, 116, 124}

Fragments == {[str |-> t, y |-> y] : t \in {"A", "B ", " "}, y \in Positions}

InitLines ==
  /\ items \in SeqsUpTo(Fragments, MaxItems)
  /\ pageLines = Pending
  /\ IdleDate /\ IdleParse /\ IdleMerge /\ IdlePipe /\ IdleExtract

Reconstruct ==
  /\ pageLines = Pending
  /\ pageLines' = Returned(reconstructLinesFromTextItems(items))
  /\ UNCHANGED <<items, dateVars, parseVars, mergeVars, pipeVars, extractVars>>

NextLines == Reconstruct

SpecLines == InitLines /\ [][NextLines]_vars

\* the fragments with a non-empty trimmed text, in input order
NonEmptyItems == SelectSeq(items, LAMBDA it : trim(it.str) # "")

RECURSIVE JoinTrimmed(_, _)
JoinTrimmed(its, i) ==
  IF i > Len(its) THEN ""
  ELSE IF i = Len(its) THEN trim(its[i].str)
  ELSE trim(its[i].str) \o " " \o JoinTrimmed(its, i + 1)

\* C10: when the non-empty fragments of a page lie pairwise less than 2
\* units apart (20 tenths) they make exactly one line, whose text is their
\* trimmed texts joined by single spaces in input order.
C10_CloseFragmentsOneLine ==
  (/\ pageLines.ok
   /\ NonEmptyItems # <<>>
   /\ \A i, j \in 1..Len(NonEmptyItems) :
        abs(NonEmptyItems[i].y - NonEmptyItems[j].y) < 20) =>
    pageLines.value = <<JoinTrimmed(NonEmptyItems, 1)>>

\* the lines built when the first n fragments of the page are processed
LinesAfter(n) == PlaceItems(SubSeq(items, 1, n), 1, <<>>)

RECURSIVE TextLength(_, _)
\* the sum over the elements from i on of the length of the trimmed text
\* plus one (text is the name of the field that holds the text)
TextLength(seq, i) ==
  IF i > Len(seq) THEN 0
  ELSE Len(trim(seq[i])) + 1 + TextLength(seq, i + 1)

\* C29: at every point of the processing of the fragments of a page, every
\* non-empty fragment processed so far is part of exactly one line (the
\* lines hold the trimmed texts of these fragments and nothing else), the
\* position recorded for a line is the position of the fragment that
\* created it, whose text starts the line, and the positions recorded for
\* two distinct lines differ by at least 2 units (positions of fragments
\* are in tenths).
C29_LinesInvariant ==
  pageLines.ok =>
    \A n \in 0..Len(items) :
      LET lines == LinesAfter(n)
          done  == SelectSeq(SubSeq(items, 1, n), LAMBDA it : trim(it.str) # "")
      IN  /\ TextLength([k \in 1..Len(lines) |-> lines[k].text], 1)
               = TextLength([k \in 1..Len(done) |-> done[k].str], 1)
          /\ \A i \in 1..Len(done) :
               \E k \in 1..Len(lines) : includes(lines[k].text, trim(done[i].str))
          /\ \A k \in 1..Len(lines) :
               \E i \in 1..Len(done) :
                 /\ At(lines[k].text, 1, trim(done[i].str))
                 /\ lines[k].y * 10 = done[i].y
          /\ \A k, l \in 1..Len(lines) : k # l => abs(lines[k].y - lines[l].y) >= 2

(***************************************************************************)
(* SpecExtract: parsePDF of the enhanced parser on one document, from the  *)
(* opening of the document over the page loop to the parse of the lines.   *)
(* The timer of the whole pipeline can fire at every await; a wait that    *)
(* runs into its own time limit takes that time, and the pipeline's timer, *)
(* set first, fires before any timer that is due at the same moment.       *)
(***************************************************************************)
MaxNumPages == 6

Page(getPage, getTextContent, textItems) ==
  [getPage |-> getPage, getTextContent |-> getTextContent, items |-> textItems]

\* a page with the closing balance line
\* a page with the closing balance line and, 1.6 units above it, a heading
AnchorPage ==
  Page("ok", "ok", <<[str |-> "SOLDE FINAL AU 31 07 2024  5 000,00 CREDITEUR", y |-> 7000],
                     [str |-> "RELEVE", y |-> 7016]>>)

\* a page with two transaction lines, the lower one first, the amount of
\* the upper one a fragment of its own, and a blank fragment
TxnPage ==
  Page("ok", "ok", <<[str |-> "0016BK 08 07 RETRAIT GAB 20,00", y |-> 4000],
                     [str |-> " ", y |-> 3000],
                     [str |-> "0016BK 07 01 ACHAT", y |-> 5000],
                     [str |-> " 10,00 ", y |-> 5004]>>)

PageKinds ==
  {AnchorPage, TxnPage,
   Page("error", "ok", <<>>),
   Page("timeout", "ok", <<>>),
   Page("ok", "timeout", AnchorPage.items)}

\* documents of fewer than MaxNumPages pages of every kind, and documents of
\* MaxNumPages pages whose last page has transactions
PageLists ==
  SeqsUpTo(PageKinds, MaxNumPages - 1)
  \cup {Append(p, TxnPage) : p \in SeqsOfLen(PageKinds, MaxNumPages - 1)}

Pdfs ==
  {[open |-> "ok", pages |-> p] : p \in PageLists}
  \cup {[open |-> o, pages |-> <<AnchorPage>>] : o \in {"timeout", "error"}}

InitExtract ==
  /\ xPdf \in Pdfs
  /\ xPc = "open" /\ xPageNum = 0 /\ xFetched = <<>> /\ xLines = <<>>
  /\ xElapsed = 0 /\ xResult = Pending
  /\ IdleDate /\ IdleParse /\ IdleMerge /\ IdleLines /\ IdlePipe

\* await this.withTimeout(pdfjsLib.getDocument(...).promise, 5000)
OpenDocument ==
  /\ xPc = "open"
  /\ xElapsed + Waited(xPdf.open, OpenTimeout) < PipelineTimeout
  /\ xElapsed' = xElapsed + Waited(xPdf.open, OpenTimeout)
  /\ \E pdf \in {withTimeout(xPdf.open, xPdf, OpenTimeout)} :
       IF pdf.ok
       THEN xPc' = "pages" /\ xPageNum' = 1 /\ UNCHANGED xResult
       ELSE /\ xPc' = "done" /\ UNCHANGED xPageNum
            /\ xResult' = Thrown("PDF processing error: " \o pdf.value)
  /\ UNCHANGED <<xPdf, xFetched, xLines, dateVars, parseVars, mergeVars, lineVars, pipeVars>>

\* one iteration of the loop of extractTextFromPDF: try, catch and continue
FetchPage ==
  /\ xPc = "pages" /\ xPageNum <= MaxPagesOf(Len(xPdf.pages))
  /\ xElapsed + PageWaited(xPdf.pages[xPageNum]) < PipelineTimeout
  /\ xElapsed' = xElapsed + PageWaited(xPdf.pages[xPageNum])
  /\ xFetched' = Append(xFetched, xPageNum)
  /\ \E pageLines0 \in {ProcessPage(xPdf.pages[xPageNum])} :
       xLines' = IF pageLines0.ok THEN xLines \o pageLines0.value ELSE xLines
  /\ xPageNum' = xPageNum + 1
  /\ UNCHANGED <<xPdf, xPc, xResult, dateVars, parseVars, mergeVars, lineVars, pipeVars>>

\* the loop is over: parseBankStatementPDF(extractedLines) and the mapping
ParseExtracted ==
  /\ xPc = "pages" /\ xPageNum > MaxPagesOf(Len(xPdf.pages))
  /\ xResult' = parsePDF(xLines, tz)
  /\ xPc' = "done"
  /\ UNCHANGED <<xPdf, xPageNum, xFetched, xLines, xElapsed,
                 dateVars, parseVars, mergeVars, lineVars, pipeVars>>

\* the timer of withTimeout(this.parsePDFInternal(file), 15000) fires
PipelineTimesOut ==
  /\ xPc \in {"open", "pages"}
  /\ xResult' = Thrown("PDF processing error: "
                       \o withTimeout("timeout", <<>>, PipelineTimeout).value)
  /\ xPc' = "done" /\ xElapsed' = PipelineTimeout
  /\ UNCHANGED <<xPdf, xPageNum, xFetched, xLines,
                 dateVars, parseVars, mergeVars, lineVars, pipeVars>>

NextExtract == OpenDocument \/ FetchPage \/ ParseExtracted \/ PipelineTimesOut

SpecExtract == InitExtract /\ [][NextExtract]_vars

\* a wait of the fetch of page k ran into its time limit
PageTimedOut(k) ==
  xPdf.pages[k].getPage = "timeout"
  \/ (xPdf.pages[k].getPage = "ok" /\ xPdf.pages[k].getTextContent = "timeout")

IsTimeoutError(result) == ~result.ok /\ includes(result.value, "timed out")

\* C11: when the opening of the document or the fetch of a page or of its
\* text content ran into its time limit, or the pipeline ran into its own,
\* parsePDF ends with a timeout error: it never returns records of the
\* remaining pages and never fails with an error of another kind.
C11_TimeoutAborts ==
  (/\ xPc = "done"
   /\ \/ xPdf.open = "timeout"
      \/ xElapsed >= PipelineTimeout
      \/ \E i \in 1..Len(xFetched) : PageTimedOut(xFetched[i])) =>
    IsTimeoutError(xResult)

\* a fatal error of the document happened: the document did not open, a
\* time limit was reached at some stage, or the parse of the lines failed
DocumentError ==
  \/ xPdf.open # "ok"
  \/ xElapsed >= PipelineTimeout
  \/ \E i \in 1..Len(xFetched) : PageTimedOut(xFetched[i])
  \/ ~parseBankStatementPDF(xLines, tz).ok

\* C12: parsePDF returns the complete record list of a successful parse or
\* throws one error: after any fatal error of the document (it did not
\* open, a time limit was reached, no period anchor, a period consistency
\* violation, zero transactions) the caller receives an error and no
\* records, and records are returned only when there was no such error.
C12_NoPartialResult ==
  xPc = "done" =>
    /\ DocumentError => ~xResult.ok
    /\ xResult.ok => Len(xResult.value) = Len(parseBankStatementPDF(xLines, tz).value.transactions)

\* the lines of a page with their positions, as sorted before the mapping
\* to their texts
SortedLines(textItems) == SortByYDescending(PlaceItems(textItems, 1, <<>>))

PageSettled(k) == xPdf.pages[k].getPage = "ok" /\ xPdf.pages[k].getTextContent = "ok"

RECURSIVE LineBlocks(_)
\* the texts of the sorted lines of the settled pages 1..k, page after page
LineBlocks(k) ==
  IF k = 0 THEN <<>>
  ELSE LineBlocks(k - 1)
       \o (IF PageSettled(k)
           THEN [i \in 1..Len(SortedLines(xPdf.pages[k].items)) |->
                   SortedLines(xPdf.pages[k].items)[i].text]
           ELSE <<>>)

\* C19: the lines of every fetched page are in strictly descending vertical
\* position, the extracted line sequence is the pages' line blocks one
\* after the other in increasing page number, and no extracted line is
\* empty or made of white space only.
C19_LinesOrdered ==
  /\ \A n \in 1..Len(xFetched) :
       PageSettled(xFetched[n]) =>
         \A i, j \in 1..Len(SortedLines(xPdf.pages[xFetched[n]].items)) :
           i < j => SortedLines(xPdf.pages[xFetched[n]].items)[i].y
                      > SortedLines(xPdf.pages[xFetched[n]].items)[j].y
  /\ \A n \in 1..Len(xFetched) : n > 1 => xFetched[n] > xFetched[n - 1]
  /\ xLines = LineBlocks(Len(xFetched))
  /\ \A i \in 1..Len(xLines) : trim(xLines[i]) # ""

\* C19 witness: two pages were put into lines, the first with two lines a
\* rounding apart, the second with lines given bottom first and a blank
\* fragment
C19_Witness ==
  /\ xPc = "done" /\ Len(xFetched) = 2
  /\ xPdf.pages[1] = AnchorPage /\ xPdf.pages[2] = TxnPage
  /\ Len(xLines) = 4
  /\ xLines[1] = "RELEVE" /\ xLines[3] = "0016BK 07 01 ACHAT 10,00"

RECURSIVE ExpectedLines(_, _)
\* the lines of the pages 1..k that settled, failed pages giving none
ExpectedLines(pages, k) ==
  IF k = 0 THEN <<>>
  ELSE ExpectedLines(pages, k - 1)
       \o (IF pages[k].getPage = "ok" /\ pages[k].getTextContent = "ok"
           THEN reconstructLinesFromTextItems(pages[k].items) ELSE <<>>)

NoPageTimedOut == \A i \in 1..Len(xFetched) : ~PageTimedOut(xFetched[i])

\* C20: the pages are fetched in order from the first, never beyond the
\* fifth nor beyond the last; while no fetch timed out, the extracted lines
\* are those of the fetched pages that did not fail, a failed page giving
\* none; and when the loop ran to its end every page up to
\* min(pageCount, 5) was fetched, whichever pages failed before.
C20_FailedPageSkipped ==
  /\ xFetched = [i \in 1..Len(xFetched) |-> i]
  /\ Len(xFetched) <= PageLimit /\ Len(xFetched) <= Len(xPdf.pages)
  /\ NoPageTimedOut => xLines = ExpectedLines(xPdf.pages, Len(xFetched))
  /\ (xPc = "done" /\ xPdf.open = "ok" /\ xElapsed < PipelineTimeout) =>
       Len(xFetched) = (IF Len(xPdf.pages) < PageLimit THEN Len(xPdf.pages) ELSE PageLimit)

\* C20 witness: of six pages the second failed with an error that is not a
\* timeout, the five first were fetched and the records of the third page
\* were returned
C20_Witness ==
  /\ xPc = "done" /\ Len(xPdf.pages) > PageLimit
  /\ xPdf.pages[1] = AnchorPage /\ xPdf.pages[2].getPage = "error" /\ xPdf.pages[3] = TxnPage
  /\ NoPageTimedOut /\ Len(xFetched) = PageLimit
  /\ xResult.ok /\ Len(xResult.value) >= 2

(***************************************************************************)
(* Spec: the upload view.  processFile runs up to its await of parsePDF    *)
(* (StartImport) and resumes when the parse settles (FinishImport,         *)
(* TimeoutImport); the drop zone is disabled while isProcessing.           *)
(***************************************************************************)
MaxImports == 2

PdfType == "application/pdf"

Files ==
  {[name |-> "juillet.pdf", type |-> PdfType, big |-> FALSE,
    textLines |-> <<"SOLDE FINAL AU 31 07 2024  5 000,00 CREDITEUR",
                    "0016BK 07 01 VIR.EMIS WEB VERS Smart Stooners 28 06 2024 1 200,00">>],
   [name |-> "doublons.pdf", type |-> PdfType, big |-> FALSE,
    textLines |-> <<"SOLDE FINAL AU 31 07 2024  5 000,00 CREDITEUR",
                    "0016BK 13 07 VERSEMENT ESPECES 500,00",
                    "0016BK 13 07 VERSEMENT ESPECES 500,00">>],
   [name |-> "sans-solde.pdf", type |-> PdfType, big |-> FALSE,
    textLines |-> <<"0016BK 15 07 RETRAIT GAB 0,00">>],
   [name |-> "sans-operation.pdf", type |-> PdfType, big |-> FALSE,
    textLines |-> <<"SOLDE FINAL AU 31 07 2024  5 000,00 CREDITEUR">>],
   [name |-> "premier-jour.pdf", type |-> PdfType, big |-> FALSE,
    textLines |-> <<"SOLDE FINAL AU 31 07 2024  5 000,00 CREDITEUR",
                    "0016BK 01 07 VERSEMENT ESPECES 500,00">>],
   [name |-> "vide.pdf", type |-> PdfType, big |-> FALSE, textLines |-> <<>>],
   [name |-> "notes.txt", type |-> "text/plain", big |-> FALSE, textLines |-> <<>>],
   [name |-> "gros.pdf", type |-> PdfType, big |-> TRUE, textLines |-> <<>>]}

Init ==
  /\ engine \in {"enhanced", "services"}
  /\ tz \in Offsets
  /\ doc = <<>> /\ period = Pending /\ parsed = Pending /\ svcParsed = Pending
  /\ converted = NotConverted /\ consoleErrors = <<>>
  /\ store = <<>> /\ statements = <<>> /\ isProcessing = FALSE
  /\ error = "" /\ success = "" /\ pc = "idle" /\ file = NoFile
  /\ cleanedExisting = <<>> /\ addedCount = 0 /\ importsDone = 0 /\ history = <<>>
  /\ background = NoImport /\ edited = <<>> /\ currentView = "upload"
  /\ IdleDate /\ IdleMerge /\ IdleLines /\ IdleExtract

\* PDFParserService.parsePDF as the upload view's import resolves it
EngineParsePDF(textLines, offset) ==
  IF engine = "enhanced" THEN parsePDF(textLines, offset) ELSE svcParsePDF(textLines)

\* what the catch of parsePDF makes of a timeout of the whole parse
TimeoutMessage ==
  LET message == "Operation timed out after 15000ms"
  IN  IF engine = "enhanced" THEN "PDF processing error: " \o message
      ELSE IF includes(message, "timeout")
           THEN "PDF processing timed out. Please try a smaller PDF file."
           ELSE "PDF processing failed: " \o message

Outcome(f, ok, before, after, added) ==
  [file |-> f.name, ok |-> ok, before |-> before, after |-> after, added |-> added]

\* processFile up to the await: the checks of the file, the clean-up of the
\* stored transactions; a file that fails a check ends the handler at once
StartImport(f) ==
  /\ currentView = "upload"
  /\ pc = "idle" /\ ~isProcessing /\ importsDone < MaxImports
  /\ success' = ""
  /\ IF f.type # PdfType \/ f.big
     THEN /\ error' = IF f.type # PdfType THEN "Please upload a PDF file"
                      ELSE "File must be smaller than 10MB"
          /\ importsDone' = importsDone + 1
          /\ history' = Append(history, Outcome(f, FALSE, store, store, 0))
          /\ UNCHANGED <<store, isProcessing, pc, file, cleanedExisting>>
     ELSE /\ error' = ""
          /\ cleanedExisting' = removeDuplicatesFromStorage(store)
          /\ store' = removeDuplicatesFromStorage(store)
          /\ isProcessing' = TRUE /\ pc' = "parsing" /\ file' = f
          /\ history' = Append(history, Outcome(f, FALSE, store, store, 0))
          /\ UNCHANGED importsDone
  /\ UNCHANGED <<engine, statements, addedCount, background, edited, currentView,
                 dateVars, parseVars, mergeVars, lineVars, extractVars>>

\* processFile from the settled parse on: conversion, merge, save, message
\* the success branch of processFile: merge, save, statement record, message
SaveImport(transactions, allTransactions, added) ==
  /\ store' = allTransactions
  /\ addedCount' = added
  /\ statements' = Append(statements, [filename |-> file.name, transactionCount |-> added])
  /\ success' =
       IF added = 0
       THEN "No new transactions found - all " \o toString(Len(transactions))
            \o " transactions were already imported"
       ELSE "Successfully added " \o toString(added)
            \o " new transactions (" \o toString(Len(allTransactions)) \o " total)"
  /\ history' = [history EXCEPT ![Len(history)] =
                   Outcome(file, TRUE, history[Len(history)].before, allTransactions, added)]
  /\ UNCHANGED error

FailImport_Silent(message) ==
  /\ history' = [history EXCEPT ![Len(history)].after = store]
  /\ UNCHANGED <<store, statements, success, addedCount, error>>

\* the branches of processFile that set an error and leave the store alone
FailImport(message) ==
  /\ error' = message
  /\ history' = [history EXCEPT ![Len(history)].after = store]
  /\ UNCHANGED <<store, statements, success, addedCount>>

MergeImport(transactions, allTransactions) ==
  SaveImport(transactions, allTransactions, Len(allTransactions) - Len(cleanedExisting))

FinishImport ==
  /\ pc = "parsing"
  /\ \E result \in {EngineParsePDF(file.textLines, tz)} :
       IF ~result.ok THEN FailImport(result.value)
       ELSE IF Len(result.value) = 0
       THEN FailImport("No transactions were found in this PDF. Please check if this is a valid bank statement from a supported bank (Attijariwafa Bank or CIH Bank).")
       ELSE \E transactions \in {ConvertAll(result.value)} :
              MergeImport(transactions, deduplicateTransactions(cleanedExisting, transactions))
  /\ isProcessing' = FALSE /\ pc' = "idle" /\ importsDone' = importsDone + 1
  /\ UNCHANGED <<engine, file, cleanedExisting, background, edited, currentView,
                 dateVars, parseVars, mergeVars, lineVars, extractVars>>

\* the parse did not settle within its time: parsePDF rejects
TimeoutImport ==
  /\ pc = "parsing"
  /\ error' = TimeoutMessage
  /\ history' = [history EXCEPT ![Len(history)].after = store]
  /\ isProcessing' = FALSE /\ pc' = "idle" /\ importsDone' = importsDone + 1
  /\ UNCHANGED <<engine, store, statements, success, file, cleanedExisting, addedCount,
                 background, edited, currentView,
                 dateVars, parseVars, mergeVars, lineVars, extractVars>>

Next == (\E f \in Files : StartImport(f)) \/ FinishImport \/ TimeoutImport

Spec == Init /\ [][Next]_vars

\* C2: when a document was imported with success and the same document is
\* imported again right after, the second import reports 0 added records
\* and puts no record into the store that was not there before it.
C2_ReimportAddsNothing ==
  \A k \in 1..(Len(history) - 1) :
    (history[k].ok /\ history[k + 1].ok /\ history[k + 1].file = history[k].file) =>
      /\ history[k + 1].added = 0
      /\ Len(history[k + 1].after) <= Len(history[k + 1].before)
      /\ \A i \in 1..Len(history[k + 1].after) :
           \E j \in 1..Len(history[k + 1].before) :
             history[k + 1].after[i] = history[k + 1].before[j]

\* C2 witness: the first import added a record, the second import of the
\* same file succeeded and added none
C2_Witness ==
  /\ Len(history) = 2 /\ pc = "idle"
  /\ history[1].ok /\ history[1].added > 0
  /\ history[2].ok /\ history[2].file = history[1].file
  /\ addedCount = 0 /\ history[2].after = store

\* the file of an entry of the history
FileNamed(name) == CHOOSE f \in Files : f.name = name

\* the entries of the history whose import has ended
Ended == {k \in 1..Len(history) : k < Len(history) \/ pc = "idle"}

\* every record of the sequence after is a record of the sequence before
NothingNew(before, after) ==
  \A i \in 1..Len(after) : \E j \in 1..Len(before) : after[i] = before[j]

\* the import side of a fatal error: when the file is too large or the
\* parse of the document fails (no period anchor, period consistency
\* violation, zero transactions) parsePDF throws, and an import that ended
\* in an error, a timeout of the whole parse included, left no record in
\* the store that was not there before it
FailedImportWritesNothing ==
  \A k \in Ended :
    LET h == history[k]
        f == FileNamed(h.file)
    IN  /\ ~h.ok => NothingNew(h.before, h.after)
        /\ (engine = "enhanced" /\ f.type = PdfType) =>
             LET result == parseBankStatementPDF(f.textLines, tz)
                 outcome == parsePDF(f.textLines, tz)
             IN  /\ f.big => ~h.ok
                 /\ ~result.ok => (~outcome.ok /\ ~h.ok)
                 /\ outcome.ok =>
                      /\ result.ok
                      /\ Len(outcome.value) = Len(result.value.transactions)
                      /\ Len(outcome.value) > 0

\* a first import stored records; the second ended with the error of a
\* document-level failure and the store is what it was
FailedImportReached ==
  /\ Len(history) = 2 /\ pc = "idle" /\ engine = "enhanced"
  /\ history[1].ok /\ history[1].added > 0
  /\ ~history[2].ok /\ FileNamed(history[2].file).type = PdfType
  /\ error # "" /\ store # <<>> /\ store = history[1].after

\* C13: when an import has ended exactly one of the error message and the
\* success message is set: the error message alone when the file was
\* refused, the parse failed or gave no record, the success message alone
\* when the parse gave records, and then the one that reports zero new
\* transactions when every record was already stored.
C13_OneMessage ==
  (pc = "idle" /\ importsDone > 0) =>
    LET h == history[Len(history)]
        f == FileNamed(h.file)
        outcome == EngineParsePDF(f.textLines, tz)
        failed == f.type # PdfType \/ f.big \/ ~outcome.ok \/ Len(outcome.value) = 0
    IN  /\ (error # "") # (success # "")
        /\ failed => (error # "" /\ success = "")
        /\ (~failed /\ error # TimeoutMessage) => (success # "" /\ error = "")
        /\ (success # "" /\ NothingNew(h.before, h.after)) =>
             /\ h.added = 0
             /\ At(success, 1, "No new transactions found - all ")

\* the second import of a statement: all its records are stored already
C13_Witness ==
  /\ pc = "idle" /\ Len(history) = 2
  /\ history[1].ok /\ history[2].ok /\ history[2].file = history[1].file
  /\ error = "" /\ At(success, 1, "No new transactions found - all ")
  /\ store # <<>>

\* C24: after any sequence of imports from an empty store the store holds
\* no two records of one deduplication key, also when one statement holds
\* two lines of one key.
C24_StoreKeysUnique ==
  pc = "idle" =>
    \A i, j \in 1..Len(store) : DedupKey(store[i]) = DedupKey(store[j]) => i = j

\* C25: an import that failed, for whatever reason, left the store with
\* exactly the sequence of records it held when the import started, and
\* added no statement record (the statement records are those of the
\* imports that succeeded).
C25_FailedImportNoChange ==
  /\ \A k \in Ended : ~history[k].ok => history[k].after = history[k].before
  /\ pc = "idle" => Len(statements) = Cardinality({k \in 1..Len(history) : history[k].ok})

\* C28: the outcome of parseBankStatementPDF for a sequence of lines, the
\* record list or the failure, is the same under every UTC offset of the
\* host, and the period check never rejects the records, which are all
\* built by buildDateISO from the resolved period.
C28_ZoneIndependent ==
  JustParsed =>
    /\ \A offset \in Offsets : parseBankStatementPDF(doc, offset) = parsed
    /\ ~parsed.ok => /\ ~At(parsed.value, 1, "Date mismatch")
                     /\ ~At(parsed.value, 1, "Consistency violation")

(***************************************************************************)
(* SpecViews: the page with its navigation.  The upload view exists only   *)
(* while currentView is "upload"; the navigation buttons are never         *)
(* disabled, so the view can change while processFile awaits the parse.    *)
(* The import then goes on without its view, and a new upload view starts  *)
(* from its initial state.  One such import is followed at a time.  The    *)
(* dashboard view writes nothing and is left out.                          *)
(***************************************************************************)
Views == {"upload", "transactions"}

\* the files dropped while the views change
ViewFiles == {f \in Files : f.name \in {"juillet.pdf", "doublons.pdf", "notes.txt"}}

\* the description typed into the edit form
EditedDescription == "LOYER"

\* Navigation's onViewChange, setCurrentView of the page
ViewChange(v) ==
  /\ v \in Views /\ v # currentView
  /\ currentView' = v
  /\ IF currentView = "upload"
     THEN /\ isProcessing' = FALSE /\ error' = "" /\ success' = ""
          /\ IF pc = "parsing"
             THEN /\ background = NoImport
                  /\ background' = [file |-> file, cleanedExisting |-> cleanedExisting,
                                    entry |-> Len(history)]
                  /\ edited' = <<>>
                  /\ pc' = "idle"
             ELSE UNCHANGED <<background, edited, pc>>
     ELSE UNCHANGED <<isProcessing, error, success, background, edited, pc>>
  /\ UNCHANGED <<engine, store, statements, file, cleanedExisting, addedCount, importsDone,
                 history, dateVars, parseVars, mergeVars, lineVars, extractVars>>

\* saveEdit of the transactions view: StorageService.updateTransaction
\* reads the store, replaces the fields of one record and writes it back
UpdateTransaction ==
  /\ currentView = "transactions"
  /\ \A j \in 1..Len(store) : store[j].description # EditedDescription
  /\ \E i \in 1..Len(store) :
       /\ store' = [store EXCEPT ![i].description = EditedDescription]
       /\ edited' = IF background # NoImport
                    THEN Append(edited, [store[i] EXCEPT !.description = EditedDescription])
                    ELSE edited
  /\ UNCHANGED <<engine, statements, isProcessing, error, success, pc, file, cleanedExisting,
                 addedCount, importsDone, history, background, currentView,
                 dateVars, parseVars, mergeVars, lineVars, extractVars>>

\* processFile of an unmounted upload view resumes: it merges into the
\* store it read before the await and saves; its messages reach no view
SettleBackground ==
  /\ background # NoImport
  /\ \E result \in {EngineParsePDF(background.file.textLines, tz)} :
       IF result.ok /\ Len(result.value) > 0
       THEN \E transactions \in {ConvertAll(result.value)} :
            \E allTransactions \in {deduplicateTransactions(background.cleanedExisting, transactions)} :
              /\ store' = allTransactions
              /\ statements' = Append(statements,
                   [filename |-> background.file.name,
                    transactionCount |-> Len(allTransactions) - Len(background.cleanedExisting)])
              /\ history' = [history EXCEPT ![background.entry] =
                   Outcome(background.file, TRUE, @.before, allTransactions,
                           Len(allTransactions) - Len(background.cleanedExisting))]
       ELSE /\ history' = [history EXCEPT ![background.entry].after = store]
            /\ UNCHANGED <<store, statements>>
  /\ background' = NoImport /\ importsDone' = importsDone + 1
  /\ UNCHANGED <<engine, isProcessing, error, success, pc, file, cleanedExisting, addedCount,
                 edited, currentView, dateVars, parseVars, mergeVars, lineVars, extractVars>>

\* the parse of an unmounted upload view did not settle within its time
TimeoutBackground ==
  /\ background # NoImport
  /\ history' = [history EXCEPT ![background.entry].after = store]
  /\ background' = NoImport /\ importsDone' = importsDone + 1
  /\ UNCHANGED <<engine, store, statements, isProcessing, error, success, pc, file,
                 cleanedExisting, addedCount, edited, currentView,
                 dateVars, parseVars, mergeVars, lineVars, extractVars>>

NextViews ==
  \/ \E f \in ViewFiles : StartImport(f)
  \/ FinishImport
  \/ TimeoutImport
  \/ \E v \in Views : ViewChange(v)
  \/ UpdateTransaction
  \/ SettleBackground
  \/ TimeoutBackground

\* the views change in one time zone
InitViews == Init /\ tz = 1

SpecViews == InitViews /\ [][NextViews]_vars

\* the timer of withTimeout fires unless the parse has settled before it
SpecViewsLive ==
  /\ SpecViews
  /\ WF_vars(TimeoutImport)
  /\ WF_vars(TimeoutBackground)

\* C26: a record written by updateTransaction while an import was between
\* its read of the store and its write of the merged list is still in the
\* store, with the written values, once that import has ended
C26_NoLostUpdate ==
  background = NoImport =>
    \A k \in 1..Len(edited) : \E j \in 1..Len(store) : store[j] = edited[k]

\* C30: every started import ends, with isProcessing false again in the
\* upload view, and at no time are two imports in progress
C30_TerminatesNoOverlap ==
  /\ [](~(pc = "parsing" /\ background # NoImport))
  /\ [](isProcessing <=> pc = "parsing")
  /\ (pc = "parsing") ~> (pc = "idle" /\ ~isProcessing)
  /\ (background # NoImport) ~> (background = NoImport)
====
